---- MODULE Spec2Model ----
(***************************************************************************)
(* BrowserAgent (packages/core/src/agents/browser/browserAgent.ts):        *)
(* the orchestrator loop of runTask, its tool dispatch and the visual      *)
(* delegate sub-loop, as a state machine.                                  *)
(*                                                                         *)
(* A text is a sequence of string tokens; the empty text is << >>.         *)
(* Concatenation of texts is \o, a template literal is the concatenation   *)
(* of its pieces.                                                          *)
(***************************************************************************)
EXTENDS Integers, Sequences, FiniteSets, TLC

\* ------------------------------------------------------------------ bounds

\* Most function calls the model emits in one streamed response.
MaxCalls == 2

\* Most function calls the visual model emits in one single-shot response.
MaxVisualCalls == 1

\* ------------------------------------------------------- program constants

MAX_ITERATIONS == 20

VISUAL_MAX_STEPS == 5

\* ------------------------------------------------------------------- texts

Empty == << >>

\* JavaScript's a || b on strings: the empty string is falsy.
OrElse(a, b) == IF a # Empty THEN a ELSE b

\* String.prototype.includes on token sequences: needle occurs contiguously.
Includes(text, needle) ==
  \E i \in 0..(Len(text) - Len(needle)) :
     \A j \in 1..Len(needle) : text[i + j] = needle[j]

\* Array.prototype.join: the texts of a sequence with sep between them.
RECURSIVE Join(_, _)
Join(texts, sep) ==
  IF texts = << >> THEN Empty
  ELSE IF Len(texts) = 1 THEN texts[1]
  ELSE texts[1] \o sep \o Join(Tail(texts), sep)

EmptyStreamMarker == <<"Model stream ended with empty response text">>

TaskFinishedText == <<"Task finished">>

TaskCompletedText == <<"Task completed">>

RepromptText ==
  <<"You must call the complete_task tool to finish. If the task is done, call complete_task with a summary. If you cannot complete the task, call complete_task explaining why.">>

\* Mutant: the message of the caught error is left out.
ConnectErrorTextNoMessage(e) == <<"Error: Failed to connect to browser: ">>

ConnectErrorText(e) == <<"Error: Failed to connect to browser: ">> \o e

ModelErrorText(e) == <<"Error calling model: ">> \o e

ExecErrorText(fnName, e) == <<"Error executing ", fnName, ": ">> \o e

NotImplementedText(fnName) == <<"Tool ", fnName, " not implemented in agent loop.">>

TreeOpen == "<accessibility_tree>\n"

TreeText(domSnap) == <<TreeOpen>> \o domSnap \o <<"\n</accessibility_tree>">>

\* ------------------------------------------------------------------- parts

TextPart(t) == [kind |-> "text", name |-> "", shape |-> "string", text |-> t]

\* currentInputParts.push({functionResponse: {name, response: {content:
\* [{type: 'text', text: functionResponse}]}}}); shape tells whether the value
\* put in the text field is a string or a wrapping record.
ResponsePart(fnName, shape, t) ==
  [kind |-> "functionResponse", name |-> fnName, shape |-> shape, text |-> t]

IsTreePart(p) == p.kind = "text" /\ p.text # Empty /\ p.text[1] = TreeOpen

TaskPrompt == <<"Go to example.com">>

InitialInput == << TextPart(<<"Task: ">> \o TaskPrompt) >>

RepromptInput == << TextPart(RepromptText) >>

\* ---------------------------------------------------- calls and tool results

\* A FunctionCall {name, args}; arg is the text of the argument the handler reads
\* (url, key, summary, instruction, ...), Empty when it is missing.
Call(fnName, a) == [name |-> fnName, arg |-> a]

\* What a tool of the driver does when invoked: it returns a ToolResult
\* {output?, error?}, returns undefined, or throws.
\* content holds the text segments of an MCP tool result (client.callTool).
Value(out, err) ==
  [kind |-> "value", output |-> out, error |-> err, content |-> << >>]

Content(segments) ==
  [kind |-> "value", output |-> Empty, error |-> Empty, content |-> segments]

Throw(e) == [kind |-> "throw", output |-> Empty, error |-> e, content |-> << >>]

Undefined ==
  [kind |-> "undefined", output |-> Empty, error |-> Empty, content |-> << >>]

McpOutcomes ==
  {Content(<< <<"scrolled">>, <<"page 2">> >>), Content(<< >>), Throw(<<"boom">>)}

ToolOutcomes == {Value(<<"ok">>, Empty), Value(Empty, <<"failed">>), Throw(<<"boom">>)}

\* The cases of the dispatch switch that return `(await tool(...)).output || ''`.
OutputHandlers ==
  {"navigate", "click", "hover", "fill", "fill_form", "upload_file",
   "get_element_text", "wait_for", "handle_dialog", "evaluate_script",
   "press_key", "drag", "close_page", "take_snapshot"}

\* Every case label of the dispatch switch.
DirectHandlers ==
  OutputHandlers \cup {"scroll_document", "complete_task", "delegate_to_visual_agent"}

\* The names of semanticTools[0].functionDeclarations.
semanticTools ==
  {"navigate", "click", "hover", "fill", "fill_form", "upload_file",
   "get_element_text", "scroll_document", "pagedown", "pageup", "take_snapshot",
   "wait_for", "handle_dialog", "evaluate_script", "press_key",
   "open_web_browser", "complete_task", "delegate_to_visual_agent"}

\* The methods the BrowserTools object has (the ones the agent calls on it).
BrowserToolsMethods ==
  {"navigate", "click", "hover", "fill", "fillForm", "uploadFile",
   "getElementText", "waitFor", "handleDialog", "evaluateScript", "pressKey",
   "drag", "closePage", "takeSnapshot", "scrollDocument", "clickAt",
   "typeTextAt", "dragAndDrop", "updateBorderOverlay"}

\* The resolution tier of a function name: the switch, the declared semantic
\* tools (default branch, first arm), the reflective fallback (second arm).
Tier(fnName) ==
  IF fnName \in DirectHandlers THEN 1
  ELSE IF fnName \in semanticTools THEN 2
  ELSE 3

\* What can come back from the tool behind a dispatched call: a name of the
\* reflective fallback that is no method of BrowserTools yields undefined; else
\* the tool answers with one of the outcomes the driver has in this run.
OutcomesOf(fnName, allowed) ==
  IF Tier(fnName) = 3 /\ fnName \notin BrowserToolsMethods THEN {Undefined}
  ELSE IF Tier(fnName) = 3 THEN (ToolOutcomes \cup {Undefined}) \cap allowed
  ELSE IF Tier(fnName) = 2 THEN McpOutcomes \cap allowed
  ELSE ToolOutcomes \cap allowed

\* Mutant: the reflective fallback without its own catch.
LegacyResponseRethrows(fnName, out) ==
  IF out.kind = "value"
    THEN OrElse(out.output, OrElse(out.error, Empty))
  ELSE IF out.kind = "throw" THEN ExecErrorText(fnName, out.error)
  ELSE NotImplementedText(fnName)

\* The reflective fallback with its own try/catch.
LegacyResponse(fnName, out) ==
  IF out.kind = "value"
    THEN OrElse(out.output, OrElse(out.error, Empty))
    ELSE NotImplementedText(fnName)

\* The passthrough to the driver's native tool call.
PassthroughResponse(out) == OrElse(Join(out.content, <<"\n">>), Empty)

\* Mutant: the outer catch yields an empty response instead of the error text.
FunctionResponseTextNoCatch(fnName, out) ==
  IF Tier(fnName) = 3 THEN LegacyResponse(fnName, out)
  ELSE IF Tier(fnName) = 2 THEN PassthroughResponse(out)
  ELSE IF fnName = "scroll_document"
    THEN OrElse(out.output, OrElse(out.error, Empty))
  ELSE OrElse(out.output, Empty)

\* Mutant: when the passthrough throws, the reflective fallback is tried next.
FunctionResponseTextFallsThrough(fnName, out) ==
  IF Tier(fnName) = 3 THEN LegacyResponse(fnName, out)
  ELSE IF Tier(fnName) = 2 /\ out.kind = "throw"
    THEN LegacyResponse(fnName, Undefined)
  ELSE IF out.kind = "throw" THEN ExecErrorText(fnName, out.error)
  ELSE IF Tier(fnName) = 2 THEN PassthroughResponse(out)
  ELSE IF fnName = "scroll_document"
    THEN OrElse(out.output, OrElse(out.error, Empty))
  ELSE OrElse(out.output, Empty)

\* Mutant: every case of the switch falls back on the tool's error text.
FunctionResponseTextWithError(fnName, out) ==
  IF Tier(fnName) = 3 THEN LegacyResponse(fnName, out)
  ELSE IF out.kind = "throw" THEN ExecErrorText(fnName, out.error)
  ELSE IF Tier(fnName) = 2 THEN PassthroughResponse(out)
  ELSE OrElse(out.output, OrElse(out.error, Empty))

\* The body of the dispatch try for a tool call: the value of functionResponse
\* for function fnName when the tool behind it answered out.
FunctionResponseText(fnName, out) ==
  IF Tier(fnName) = 3 THEN LegacyResponse(fnName, out)
  ELSE IF out.kind = "throw" THEN ExecErrorText(fnName, out.error)
  ELSE IF Tier(fnName) = 2 THEN PassthroughResponse(out)
  ELSE IF fnName = "scroll_document"
    THEN OrElse(out.output, OrElse(out.error, Empty))
  ELSE OrElse(out.output, Empty)

\* ------------------------------------------------------- the visual delegate

VisualHandlers ==
  {"click_at", "type_text_at", "drag_and_drop", "press_key", "scroll_document"}

\* JSON.stringify of a visual action's funcResult: the fields that are present.
JsonResult(r) ==
  <<"{">>
  \o (IF r.output # Empty THEN <<"\"output\":\"">> \o r.output \o <<"\"">> ELSE Empty)
  \o (IF r.output # Empty /\ r.error # Empty THEN <<",">> ELSE Empty)
  \o (IF r.error # Empty THEN <<"\"error\":\"">> \o r.error \o <<"\"">> ELSE Empty)
  \o <<"}">>

\* funcResult of one visual function call: the tool's return value, the caught
\* exception's message, or the unknown-tool error.
VisualResult(call, out) ==
  IF call.name \notin VisualHandlers
    THEN [output |-> Empty, error |-> <<"Unknown visual tool: ", call.name>>]
  ELSE IF out.kind = "throw" THEN [output |-> Empty, error |-> out.error]
  ELSE [output |-> out.output, error |-> out.error]

\* The line pushed to actionHistory for one visual function call.
HistoryEntry(call, r) ==
  <<"- ", call.name, "(">> \o call.arg \o <<") => ">> \o JsonResult(r)

\* Mutant: the completion summary leaves the action history out.
CompletedOutputNoHistory(text, history) ==
  <<"Visual Agent Completed.\nFinal Message: ">> \o text \o <<"\nActions Taken:\n">>

CompletedOutput(text, history) ==
  <<"Visual Agent Completed.\nFinal Message: ">> \o text
  \o <<"\nActions Taken:\n">> \o Join(history, <<"\n">>)

\* No answer of generateContent yet.
NoAnswer == [kind |-> "", text |-> Empty, calls |-> << >>]

MaxStepsMarker == "Visual Agent reached max steps.\nActions Taken:\n"

\* Mutant: the summary at max steps leaves the action history out.
MaxStepsOutputNoHistory(history) == <<MaxStepsMarker>>

MaxStepsOutput(history) == <<MaxStepsMarker>> \o Join(history, <<"\n">>)

\* One entry of the delegate's conversation: a role and the kinds of its parts.
ContentEntry(role, parts) == [role |-> role, parts |-> parts]

\* initialParts: the instruction, and the screenshot when there is one.
InitialContents(screen) ==
  << ContentEntry("user",
       <<"text">> \o (IF screen # Empty THEN <<"inlineData">> ELSE << >>)) >>

ScreenshotData == <<"iVBORw0KGgo=">>

\* captureScreenshot: the base64 image, or '' when any step of it throws.
ScreenshotOf(shot) == IF shot = "ok" THEN ScreenshotData ELSE Empty

\* The capturing flag last sent to the driver by captureScreenshot: it is set
\* before page.screenshot() and cleared after it.
CapturingAfter(shot, before) ==
  IF shot = "pageFail" THEN before
  ELSE IF shot = "shotFail" THEN TRUE
  ELSE FALSE

ShotOutcomes == {"ok", "pageFail", "shotFail"}

\* ------------------------------------------------------------------- state

VARIABLES
  scenario,           \* what the model clients and the driver may answer in this run
  pc,                 \* the await runTask is suspended at; "done" once it settled
  aborted,            \* signal.aborted
  result,             \* the string runTask returned
  exitCause,          \* why runTask settled
  borderOverlay,      \* the overlay state last sent to the driver
  iterationCount,
  taskCompleted,
  taskSummary,
  currentInputParts,
  domSnapshot,        \* the snapshot text captured for the turn's payload
  messageParts,       \* the parts handed to the streaming call, while it is in flight
  functionCalls,      \* the calls accumulated from the stream of this turn
  callIdx,            \* position of the dispatch loop in functionCalls
  i,                  \* step counter of runVisualDelegate
  contents,           \* conversation of runVisualDelegate
  actionHistory,      \* actionHistory of runVisualDelegate
  connects,           \* ensureConnection calls made
  captures,           \* times the Capture State block was entered
  turnSnaps,          \* automatic take_snapshot calls issued to the driver this turn
  modelCalls,         \* sendMessageStream calls made
  turnDispatched,     \* function calls of this turn handed to a handler
  cancelAt,           \* the checkpoint that first observed signal.aborted
  streamError,        \* the message of the error the model stream raised
  connectError,       \* the message of the error the connection raised
  clientFailed,       \* getMcpClient threw in the Capture State block of this turn
  thrown,             \* per function response of this turn: did its handler throw
  completions,        \* the summary arguments of the complete_task calls dispatched
  snapshotFailed,     \* callTool('take_snapshot') threw in the Capture State block of this turn
  invoked,            \* per function response of this turn: the call, what its handler got and answered
  turnShots,          \* captureScreenshot calls made in this turn
  turnDelegates,      \* delegate_to_visual_agent calls dispatched in this turn
  turnActionSteps,    \* delegate steps of this turn that executed visual actions
  delegated,          \* a delegate_to_visual_agent call was dispatched in this run
  visualModelCalls,   \* generateContent calls of the current delegate run
  executed,           \* the visual actions the current delegate run executed, in order
  invalidations,      \* cache invalidations the current delegate run attempted
  invalidationFailed, \* the last cache invalidation of the current delegate run threw
  lastVisual,         \* the last answer generateContent gave to the delegate
  abortStep           \* the delegate step in progress when the signal was aborted, 0 outside a delegate run

\* The state of the ActivateSkill tool and of its Config.
VARIABLES
  configSkills,       \* config.getSkills(): the configured skills, in order
  params,             \* the params of the tool call last handed to the tool
  toolPc,             \* idle, rejected (validation failed), invocation (created), done (executed)
  validationError,    \* what validateToolParamValues returned for params (Empty for null)
  toolResult,         \* the ToolResult of the last execute
  invocations,        \* the params of the invocations created, in order
  activated           \* the names config.activateSkill was called with, in order

toolVars ==
  <<configSkills, params, toolPc, validationError, toolResult, invocations,
    activated>>

\* The state of one SkillDiscoveryService.discoverSkills call.
VARIABLES
  files,              \* the file system: what each SKILL.md holds
  paths,              \* the paths argument
  pathIdx,            \* position of the for loop over paths
  skillFiles,         \* what is left of the glob result of the current search path
  skills,             \* the skills array
  seenLocations,      \* the seenLocations set
  discoverPc          \* path (loop over paths), file (loop over skillFiles), returned

discoverVars ==
  <<files, paths, pathIdx, skillFiles, skills, seenLocations, discoverPc>>

skillVars == <<toolVars, discoverVars>>

agentVars ==
  <<scenario, pc, aborted, result, exitCause, borderOverlay, iterationCount,
    taskCompleted, taskSummary, currentInputParts, messageParts, functionCalls,
    callIdx, i, contents, actionHistory, connects, captures, turnSnaps,
    modelCalls, turnDispatched, cancelAt, streamError, connectError,
    clientFailed, thrown, completions, domSnapshot, snapshotFailed, invoked,
    turnShots, turnDelegates, turnActionSteps, delegated, visualModelCalls,
    executed, invalidations, invalidationFailed, lastVisual, abortStep>>

vars == <<agentVars, toolVars, discoverVars>>

NoToolResult == [llmContent |-> Empty, returnDisplay |-> Empty]

\* The ActivateSkill tool before any call: nothing configured, built or run.
ToolIdle ==
  /\ configSkills = << >>
  /\ params = [name |-> Empty]
  /\ toolPc = "idle"
  /\ validationError = Empty
  /\ toolResult = NoToolResult
  /\ invocations = << >>
  /\ activated = << >>

\* No discoverSkills call in progress.
DiscoverIdle ==
  /\ files = << >>
  /\ paths = << >>
  /\ pathIdx = 1
  /\ skillFiles = << >>
  /\ skills = << >>
  /\ seenLocations = {}
  /\ discoverPc = "idle"

loopVars == <<iterationCount, taskCompleted, taskSummary, currentInputParts>>

turnVars == <<messageParts, functionCalls, callIdx>>

delegateVars == <<i, contents, actionHistory>>

\* What is recorded of the screenshots and of the delegate runs.
shotVars == <<turnShots, turnDelegates, turnActionSteps, delegated>>

runVars ==
  <<visualModelCalls, executed, invalidations, invalidationFailed, lastVisual>>

ghostVars ==
  <<connects, captures, turnSnaps, modelCalls, turnDispatched, cancelAt,
    streamError, connectError, clientFailed, thrown, completions>>

\* --------------------------------------------------------------- scenarios

\* A scenario fixes, for one run, what the collaborators of runTask may answer:
\* menu is the set of function calls the orchestrator model may emit, outcomes
\* the answers of the driver's tools, vmenu the (visual call, tool outcome)
\* pairs of the visual model, vkinds the kinds of response generateContent may
\* give, shots the outcomes of captureScreenshot, width the most function
\* calls the orchestrator model puts in one response, vwidth the most the
\* visual model puts in one response.
Scenario(menu, outcomes, vmenu, vkinds, shots) ==
  [menu |-> menu, outcomes |-> outcomes, vmenu |-> vmenu, vkinds |-> vkinds,
   shots |-> shots, width |-> MaxCalls, vwidth |-> MaxVisualCalls]

\* The scenario in which the orchestrator model emits one call per response.
OneCallPerResponse(sc) == [sc EXCEPT !.width = 1]

\* The scenario in which the visual model emits one action per response.
OneActionPerStep(sc) == [sc EXCEPT !.vwidth = 1]

VisualAction(call, out) == [call |-> call, out |-> out]

Navigate == Call("navigate", <<"https://example.com">>)

PressKey == Call("press_key", <<"Enter">>)

CompleteDone == Call("complete_task", <<"Done">>)

CompleteOther == Call("complete_task", <<"Other">>)

Unnamed == Call("", Empty)

Delegate == Call("delegate_to_visual_agent", <<"Click the blue button">>)

TakeSnapshot == Call("take_snapshot", <<"true">>)

Pagedown == Call("pagedown", <<"{}">>)

ClickThrows == VisualAction(Call("click_at", <<"x=1, y=2">>), Throw(<<"boom">>))

ZoomUnknown == VisualAction(Call("zoom", <<"level=2">>), Undefined)

ClickOk == VisualAction(Call("click_at", <<"x=1, y=2">>), Value(<<"ok">>, Empty))

Scenarios ==
  {Scenario({CompleteDone, CompleteOther}, {}, {}, {}, {}),
   Scenario({Navigate, CompleteDone}, {Value(<<"ok">>, Empty), Throw(<<"boom">>)},
            {}, {}, {}),
   Scenario({PressKey, Unnamed}, {Value(<<"ok">>, Empty), Throw(<<"boom">>)},
            {}, {}, {}),
   Scenario({TakeSnapshot, PressKey}, {Value(<<"ok">>, Empty), Value(Empty, <<"failed">>)},
            {}, {}, {}),
   Scenario({Delegate, PressKey}, {Throw(<<"boom">>)},
            {ClickOk}, {"throw", "final"}, {"ok", "shotFail"}),
   OneCallPerResponse(
     Scenario({Delegate}, {}, {ClickOk}, {"calls", "final", "silent", "none"}, {"ok"})),
   Scenario({Call("clickAt", <<"10">>), Pagedown},
            {Value(<<"ok">>, Empty), Content(<< <<"scrolled">>, <<"page 2">> >>),
             Throw(<<"boom">>)}, {}, {}, {}),
   Scenario({Call("zoom_in", <<"2">>), Navigate}, {Value(<<"ok">>, Empty)},
            {}, {}, {}),
   OneActionPerStep(OneCallPerResponse(
     Scenario({Delegate}, {}, {ClickThrows, ZoomUnknown}, {"calls"},
              {"ok", "shotFail"})))}

\* ----------------------------------------------------------------- runTask

InitWith(scenarios) ==
  /\ scenario \in scenarios
  /\ pc = "connect"
  /\ aborted \in BOOLEAN
  /\ result = Empty
  /\ exitCause = ""
  /\ borderOverlay = [active |-> FALSE, capturing |-> FALSE]
  /\ iterationCount = 0
  /\ taskCompleted = FALSE
  /\ taskSummary = Empty
  /\ currentInputParts = << >>
  /\ messageParts = << >>
  /\ functionCalls = << >>
  /\ callIdx = 0
  /\ i = 0
  /\ contents = << >>
  /\ actionHistory = << >>
  /\ connects = 0
  /\ captures = 0
  /\ turnSnaps = 0
  /\ modelCalls = 0
  /\ turnDispatched = 0
  /\ cancelAt = ""
  /\ streamError = Empty
  /\ connectError = Empty
  /\ clientFailed = FALSE
  /\ thrown = << >>
  /\ completions = << >>
  /\ domSnapshot = Empty
  /\ snapshotFailed = FALSE
  /\ invoked = << >>
  /\ turnShots = 0
  /\ turnDelegates = 0
  /\ turnActionSteps = 0
  /\ delegated = FALSE
  /\ visualModelCalls = 0
  /\ executed = << >>
  /\ invalidations = 0
  /\ invalidationFailed = FALSE
  /\ lastVisual = NoAnswer
  /\ abortStep = 0

Init == InitWith(Scenarios) /\ ToolIdle /\ DiscoverIdle

\* The step of the delegate run that is in progress at an await of runTask.
StepInProgress == IF pc = "delegate" THEN visualModelCalls + 1 ELSE 0

\* Mutant: aborting the signal ends a delegate run in progress at once.
AbortPreempts ==
  /\ pc # "done"
  /\ ~aborted
  /\ aborted' = TRUE
  /\ abortStep' = StepInProgress
  /\ IF pc = "delegate"
       THEN /\ pc' = "done"
            /\ result' = <<"Task finished">>
            /\ exitCause' = "cancel"
       ELSE UNCHANGED <<pc, result, exitCause>>
  /\ UNCHANGED <<skillVars, scenario, borderOverlay, loopVars,
                 turnVars, delegateVars, ghostVars, domSnapshot, snapshotFailed,
                 invoked, shotVars, runVars>>

\* The caller aborts the signal; it can do so at any await of runTask, the
\* awaits of runVisualDelegate included, and nothing but the flag changes.
Abort ==
  /\ pc # "done"
  /\ ~aborted
  /\ aborted' = TRUE
  /\ abortStep' = StepInProgress
  /\ UNCHANGED <<skillVars, scenario, pc, result, exitCause, borderOverlay, loopVars,
                 turnVars, delegateVars, ghostVars, domSnapshot, snapshotFailed,
                 invoked, shotVars, runVars>>

\* Mutant: the summary is returned without the fallback text.
LoopResultNoFallback(summary) == summary

\* return taskSummary || 'Task finished' after the loop.
LoopResult(summary) == OrElse(summary, TaskFinishedText)

ConnectOutcomes == {"ok", "connectFail", "overlayFail", "overlayFault"}

\* The messages of the errors caught by the try around the connection.
ConnectFailures ==
  [o \in {"connectFail", "overlayFail"} |->
     IF o = "connectFail" THEN <<"Chrome is not running">> ELSE <<"Target closed">>]

\* Mutants: a checkpoint that does not look at the signal.
NeverCancelledAtTop == FALSE

NeverCancelledBeforeTool == FALSE

\* The polled cancellation checkpoints of runTask: each reads signal.aborted.
CancelledAtTop == aborted

CancelledAfterCapture == aborted

CancelledInStream == aborted

CancelledAfterStream == aborted

CancelledBeforeTool == aborted

\* ensureConnection and the first updateBorderOverlay inside the try, the
\* second updateBorderOverlay after it, then the loop's declarations.
Connect ==
  /\ pc = "connect"
  /\ connects' = connects + 1
  /\ \E o \in ConnectOutcomes :
       IF o \in {"connectFail", "overlayFail"}
         THEN /\ pc' = "done"
              /\ connectError' = ConnectFailures[o]
              /\ result' = ConnectErrorText(ConnectFailures[o])
              /\ exitCause' = "connect"
              /\ UNCHANGED <<borderOverlay, loopVars>>
       ELSE IF o = "overlayFault"
         THEN /\ pc' = "done"
              /\ result' = Empty
              /\ exitCause' = "fault"
              /\ borderOverlay' = [active |-> TRUE, capturing |-> FALSE]
              /\ UNCHANGED <<loopVars, connectError>>
       ELSE /\ pc' = "loopTop"
            /\ borderOverlay' = [active |-> TRUE, capturing |-> FALSE]
            /\ currentInputParts' = InitialInput
            /\ iterationCount' = 0
            /\ taskCompleted' = FALSE
            /\ taskSummary' = Empty
            /\ UNCHANGED <<result, exitCause, connectError>>
  /\ UNCHANGED <<skillVars, scenario, aborted, abortStep, turnVars, delegateVars, captures, turnSnaps,
                 modelCalls, turnDispatched, cancelAt, streamError, clientFailed,
                 thrown, completions, domSnapshot, snapshotFailed, invoked,
                 shotVars, runVars>>

\* The while condition, the abort check at the top of the turn, and the start
\* of the Capture State block (the await of getMcpClient).
LoopTop ==
  /\ pc = "loopTop"
  /\ IF iterationCount >= MAX_ITERATIONS
       THEN /\ pc' = "done"
            /\ result' = LoopResult(taskSummary)
            /\ exitCause' = "cap"
            /\ UNCHANGED <<captures, turnSnaps, turnDispatched, cancelAt, clientFailed,
                           domSnapshot, snapshotFailed, shotVars, runVars>>
     ELSE IF CancelledAtTop
       THEN /\ pc' = "done"
            /\ result' = LoopResult(taskSummary)
            /\ exitCause' = "cancel"
            /\ cancelAt' = IF cancelAt = "" THEN "top" ELSE cancelAt
            /\ UNCHANGED <<captures, turnSnaps, turnDispatched, clientFailed,
                           domSnapshot, snapshotFailed, shotVars, runVars>>
     ELSE /\ pc' = "capture"
          /\ captures' = captures + 1
          /\ turnSnaps' = 0
          /\ turnDispatched' = 0
          /\ clientFailed' = FALSE
          /\ domSnapshot' = Empty
          /\ snapshotFailed' = FALSE
          /\ turnShots' = 0
          /\ turnDelegates' = 0
          /\ turnActionSteps' = 0
          /\ visualModelCalls' = 0
          /\ executed' = << >>
          /\ invalidations' = 0
          /\ invalidationFailed' = FALSE
          /\ lastVisual' = NoAnswer
          /\ UNCHANGED <<result, exitCause, cancelAt, delegated>>
  /\ UNCHANGED <<skillVars, scenario, aborted, abortStep, borderOverlay, loopVars, turnVars,
                 delegateVars, connects, modelCalls, streamError, connectError,
                 thrown, completions, invoked>>

\* Mutant: the tree part is pushed without looking at the snapshot.
StatePartsAlways(snap) == << TextPart(TreeText(snap)) >>

\* stateParts: the accessibility-tree part, when the snapshot is not empty.
StateParts(snap) ==
  IF snap # Empty THEN << TextPart(TreeText(snap)) >> ELSE << >>

\* Mutant: the carried-over parts come first, the state last.
BuildMessagePartsStateLast(snap, inputParts) == inputParts \o StateParts(snap)

\* const messageParts = [...stateParts, ...currentInputParts]
BuildMessageParts(snap, inputParts) == StateParts(snap) \o inputParts

\* The abort check after the state capture, then the payload and the call of
\* chat.sendMessageStream.
AfterCapture(snap) ==
  /\ domSnapshot' = snap
  /\ IF CancelledAfterCapture
       THEN /\ pc' = "done"
            /\ result' = LoopResult(taskSummary)
            /\ exitCause' = "cancel"
            /\ cancelAt' = "capture"
            /\ UNCHANGED <<turnVars, modelCalls>>
       ELSE /\ pc' = "stream"
            /\ messageParts' = BuildMessageParts(snap, currentInputParts)
            /\ functionCalls' = << >>
            /\ modelCalls' = modelCalls + 1
            /\ UNCHANGED <<result, exitCause, cancelAt, callIdx>>

\* Mutant: the capture is skipped, and the model invoked at once, when the
\* previous turn's responses already hold a take_snapshot result.
CaptureClientReusing ==
  /\ pc = "capture"
  /\ IF \E k \in 1..Len(currentInputParts) : currentInputParts[k].name = "take_snapshot"
       THEN /\ AfterCapture(Empty)
            /\ UNCHANGED <<turnSnaps, clientFailed>>
       ELSE \E gotClient \in BOOLEAN :
              IF gotClient
                THEN /\ pc' = "snapshot"
                     /\ turnSnaps' = turnSnaps + 1
                     /\ UNCHANGED <<result, exitCause, cancelAt, turnVars, modelCalls,
                                    clientFailed, domSnapshot>>
                ELSE /\ clientFailed' = TRUE
                     /\ AfterCapture(Empty)
                     /\ UNCHANGED turnSnaps
  /\ UNCHANGED <<skillVars, scenario, aborted, abortStep, borderOverlay, loopVars, delegateVars,
                 connects, captures, turnDispatched, streamError, connectError,
                 thrown, completions, snapshotFailed, invoked, shotVars, runVars>>

\* await this.browserManager.getMcpClient() of the Capture State block settles:
\* with the client, take_snapshot {verbose: false} is issued; when it throws,
\* the catch leaves domSnapshot empty.
CaptureClient ==
  /\ pc = "capture"
  /\ \E gotClient \in BOOLEAN :
       IF gotClient
         THEN /\ pc' = "snapshot"
              /\ turnSnaps' = turnSnaps + 1
              /\ UNCHANGED <<result, exitCause, cancelAt, turnVars, modelCalls,
                             clientFailed, domSnapshot>>
         ELSE /\ clientFailed' = TRUE
              /\ AfterCapture(Empty)
              /\ UNCHANGED turnSnaps
  /\ UNCHANGED <<skillVars, scenario, aborted, abortStep, borderOverlay, loopVars, delegateVars,
                 connects, captures, turnDispatched, streamError, connectError,
                 thrown, completions, snapshotFailed, invoked, shotVars, runVars>>

\* The text parts of snapResult.content joined, '' without content.
SnapshotTexts == {<<"uid=87_4 button Login">>, Empty}

\* await client.callTool('take_snapshot', {verbose: false}) settles: with a
\* result whose text parts are joined into domSnapshot, or by throwing (the
\* catch only logs and domSnapshot keeps its initial '').
CaptureSnapshot ==
  /\ pc = "snapshot"
  /\ \E threw \in BOOLEAN :
       /\ snapshotFailed' = threw
       /\ IF threw
            THEN AfterCapture(Empty)
            ELSE \E snap \in SnapshotTexts : AfterCapture(snap)
  /\ UNCHANGED <<skillVars, scenario, aborted, abortStep, borderOverlay, loopVars, delegateVars,
                 connects, captures, turnSnaps, turnDispatched, streamError,
                 connectError, clientFailed, thrown, completions, invoked,
                 shotVars, runVars>>

\* The sequences of at most n calls drawn from menu.
RECURSIVE CallSeqs(_, _)
CallSeqs(menu, n) ==
  IF n = 0 THEN {<< >>}
  ELSE LET shorter == CallSeqs(menu, n - 1)
       IN  shorter \cup {Append(q, c) : q \in {x \in shorter : Len(x) = n - 1}, c \in menu}

\* Mutant: the calls of a later chunk are put in front of the earlier ones.
AccumulateFront(calls, chunk) == chunk \o calls

\* functionCalls.push(call) for each function call of the chunk, in order.
Accumulate(calls, chunk) == calls \o chunk

\* One CHUNK event of the stream: the abort check, then the chunk's function
\* calls are appended to functionCalls.
StreamChunk ==
  /\ pc = "stream"
  /\ \E chunk \in CallSeqs(scenario.menu, scenario.width - Len(functionCalls)) :
       IF CancelledInStream
         THEN /\ pc' = "done"
              /\ result' = LoopResult(taskSummary)
              /\ exitCause' = "cancel"
              /\ cancelAt' = "chunk"
              /\ messageParts' = << >>
              /\ domSnapshot' = Empty
              /\ snapshotFailed' = FALSE
              /\ UNCHANGED functionCalls
         ELSE /\ functionCalls' = Accumulate(functionCalls, chunk)
              /\ UNCHANGED <<pc, result, exitCause, cancelAt, messageParts,
                             domSnapshot, snapshotFailed>>
  /\ UNCHANGED <<skillVars, scenario, aborted, abortStep, borderOverlay, loopVars, callIdx,
                 delegateVars, connects, captures, turnSnaps, modelCalls,
                 turnDispatched, streamError, connectError, clientFailed,
                 thrown, completions, invoked, shotVars, runVars>>

\* Whether the handler behind a function response threw, and the message.
NoThrow == [threw |-> FALSE, message |-> Empty]

Threw(e) == [threw |-> TRUE, message |-> e]

\* Mutant: the re-prompt branch goes on to the next turn without counting it.
AfterStreamNoIncrement ==
  IF functionCalls # << >>
    THEN /\ pc' = "dispatch"
         /\ currentInputParts' = << >>
         /\ thrown' = << >>
         /\ callIdx' = 1
         /\ UNCHANGED iterationCount
    ELSE /\ pc' = "loopTop"
         /\ currentInputParts' = RepromptInput
         /\ thrown' = << >>
         /\ UNCHANGED <<iterationCount, callIdx>>

\* Mutant: the dispatch loop adds its responses to the parts carried so far.
AfterStreamKeepsInput ==
  IF functionCalls # << >>
    THEN /\ pc' = "dispatch"
         /\ UNCHANGED currentInputParts
         /\ thrown' = [k \in 1..Len(currentInputParts) |-> NoThrow]
         /\ callIdx' = 1
         /\ UNCHANGED iterationCount
    ELSE /\ pc' = "loopTop"
         /\ currentInputParts' = RepromptInput
         /\ thrown' = << >>
         /\ iterationCount' = iterationCount + 1
         /\ UNCHANGED callIdx

\* Mutant: the re-prompt is added to the parts carried over so far.
AfterStreamKeepsParts ==
  IF functionCalls # << >>
    THEN /\ pc' = "dispatch"
         /\ currentInputParts' = << >>
         /\ thrown' = << >>
         /\ callIdx' = 1
         /\ UNCHANGED iterationCount
    ELSE /\ pc' = "loopTop"
         /\ currentInputParts' = currentInputParts \o RepromptInput
         /\ thrown' = << >>
         /\ iterationCount' = iterationCount + 1
         /\ UNCHANGED callIdx

\* The code after the stream when it was not cancelled: with function calls the
\* dispatch loop starts on an empty currentInputParts, without any the
\* corrective re-prompt is installed and the turn ends.
AfterStream ==
  IF functionCalls # << >>
    THEN /\ pc' = "dispatch"
         /\ currentInputParts' = << >>
         /\ thrown' = << >>
         /\ callIdx' = 1
         /\ UNCHANGED iterationCount
    ELSE /\ pc' = "loopTop"
         /\ currentInputParts' = RepromptInput
         /\ thrown' = << >>
         /\ iterationCount' = iterationCount + 1
         /\ UNCHANGED callIdx

\* The stream is exhausted: the abort check after streaming, then the tools.
StreamEnd ==
  /\ pc = "stream"
  /\ IF CancelledAfterStream
       THEN /\ pc' = "done"
            /\ result' = LoopResult(taskSummary)
            /\ exitCause' = "cancel"
            /\ cancelAt' = "stream"
            /\ UNCHANGED <<iterationCount, currentInputParts, callIdx, thrown,
                           invoked>>
       ELSE /\ AfterStream
            /\ invoked' = << >>
            /\ UNCHANGED <<result, exitCause, cancelAt>>
  /\ messageParts' = << >>
  /\ domSnapshot' = Empty
  /\ snapshotFailed' = FALSE
  /\ UNCHANGED <<skillVars, scenario, aborted, abortStep, borderOverlay, taskCompleted, taskSummary,
                 functionCalls, delegateVars, connects, captures, turnSnaps,
                 modelCalls, turnDispatched, streamError, connectError,
                 clientFailed, completions, shotVars, runVars>>

StreamErrors == {EmptyStreamMarker, <<"quota exceeded">>}

\* Mutant: the catch swallows every error and the turn goes on.
StreamCatchSwallows(msg) == FALSE

\* The catch around the stream: when msg includes the empty-response marker a
\* warning is logged, and in every case msg is printed and returned.
StreamCatchReturns(msg) ==
  IF Includes(msg, EmptyStreamMarker) THEN TRUE ELSE TRUE

\* sendMessageStream or the iteration of the stream throws.
StreamError ==
  /\ pc = "stream"
  /\ \E e \in StreamErrors :
       /\ streamError' = e
       /\ IF StreamCatchReturns(ModelErrorText(e))
            THEN /\ pc' = "done"
                 /\ result' = ModelErrorText(e)
                 /\ exitCause' = "stream"
                 /\ UNCHANGED <<iterationCount, currentInputParts, callIdx, thrown,
                                invoked>>
            ELSE /\ AfterStream
                 /\ invoked' = << >>
                 /\ UNCHANGED <<result, exitCause>>
  /\ messageParts' = << >>
  /\ domSnapshot' = Empty
  /\ snapshotFailed' = FALSE
  /\ UNCHANGED <<skillVars, scenario, aborted, abortStep, borderOverlay, taskCompleted, taskSummary,
                 functionCalls, delegateVars, connects, captures, turnSnaps,
                 modelCalls, turnDispatched, cancelAt, connectError,
                 clientFailed, completions, shotVars, runVars>>

\* Mutant: the completion flag is not looked at after the dispatch loop.
AfterDispatchLoopNoBreak ==
  /\ pc' = "loopTop"
  /\ iterationCount' = iterationCount + 1
  /\ UNCHANGED <<result, exitCause>>

\* Mutant: the loop is left after the first turn that dispatched calls.
AfterDispatchLoopAlwaysBreaks ==
  /\ pc' = "done"
  /\ result' = LoopResult(taskSummary)
  /\ exitCause' = "complete"
  /\ UNCHANGED iterationCount

\* The code after the dispatch loop: the completion check, else iterationCount++.
AfterDispatchLoop ==
  IF taskCompleted
    THEN /\ pc' = "done"
         /\ result' = LoopResult(taskSummary)
         /\ exitCause' = "complete"
         /\ UNCHANGED iterationCount
    ELSE /\ pc' = "loopTop"
         /\ iterationCount' = iterationCount + 1
         /\ UNCHANGED <<result, exitCause>>

\* The argument a handler is called with: fnArgs['url'], fnArgs['key'],
\* fnArgs['verbose'], fnArgs['instruction'], ... of the call, passed as it is.
HandlerArgs(call) == call.arg

\* What is recorded of one function response: the call, the argument its
\* handler was called with and what the tool behind it answered.
Invocation(call, passed, out) == [call |-> call, arg |-> passed, out |-> out]

\* Mutant: every dispatched call captures a screenshot first.
ScreenshotsOnDispatchAlways(fnName) == 1

\* The captureScreenshot calls a dispatch case makes before its handler runs:
\* only case 'delegate_to_visual_agent' calls it.
ScreenshotsOnDispatch(fnName) ==
  IF fnName = "delegate_to_visual_agent" THEN 1 ELSE 0

\* case 'complete_task': const summary = fnArgs['summary'] || 'Task completed'
CompleteSummary(arg) == OrElse(arg, TaskCompletedText)

\* Mutant: case 'complete_task' leaves the dispatch loop.
CompleteEndsTurn == callIdx' = Len(functionCalls) + 1

\* case 'complete_task' ends with `break` of the switch: the response is
\* pushed and the for loop goes on with the next call.
CompleteGoesOn == callIdx' = callIdx + 1

\* Mutant: runVisualDelegate is started without await, the loop goes on.
DelegateNotAwaited ==
  /\ pc' = "dispatch"
  /\ callIdx' = callIdx + 1

\* `await this.runVisualDelegate(...)`: the dispatch loop is suspended at the
\* call until the delegate returns.
AwaitDelegate ==
  /\ pc' = "delegate"
  /\ UNCHANGED callIdx

\* One pass of `for (const call of functionCalls)` up to its first await: the
\* abort check, the name check, and the case of the call. complete_task has no
\* await and is handled whole; delegate_to_visual_agent captures the screenshot
\* and seeds runVisualDelegate; every other call is handed to its tool.
Dispatch ==
  /\ pc = "dispatch"
  /\ IF callIdx > Len(functionCalls)
       THEN /\ AfterDispatchLoop
            /\ UNCHANGED <<borderOverlay, taskCompleted, taskSummary,
                           currentInputParts, callIdx, delegateVars,
                           turnDispatched, cancelAt, thrown, completions,
                           invoked, shotVars, runVars>>
     ELSE IF CancelledBeforeTool
       THEN /\ cancelAt' = "dispatch"
            /\ AfterDispatchLoop
            /\ UNCHANGED <<borderOverlay, taskCompleted, taskSummary,
                           currentInputParts, callIdx, delegateVars,
                           turnDispatched, thrown, completions, invoked,
                           shotVars, runVars>>
     ELSE LET call == functionCalls[callIdx]
          IN  IF call.name = ""
                THEN /\ callIdx' = callIdx + 1
                     /\ UNCHANGED <<pc, result, exitCause, borderOverlay, loopVars,
                                    delegateVars, turnDispatched, cancelAt,
                                    thrown, completions, invoked, shotVars,
                                    runVars>>
              ELSE IF call.name = "complete_task"
                THEN /\ taskCompleted' = TRUE
                     /\ taskSummary' = CompleteSummary(call.arg)
                     /\ currentInputParts' =
                          Append(currentInputParts,
                                 ResponsePart(call.name, "string", CompleteSummary(call.arg)))
                     /\ thrown' = Append(thrown, NoThrow)
                     /\ invoked' = Append(invoked, Invocation(call, call.arg, Undefined))
                     /\ completions' = Append(completions, call.arg)
                     /\ CompleteGoesOn
                     /\ turnDispatched' = turnDispatched + 1
                     /\ turnShots' = turnShots + ScreenshotsOnDispatch(call.name)
                     /\ UNCHANGED <<pc, result, exitCause, borderOverlay,
                                    iterationCount, delegateVars, cancelAt,
                                    turnDelegates, turnActionSteps, delegated,
                                    runVars>>
              ELSE IF call.name = "delegate_to_visual_agent"
                THEN /\ \E shot \in scenario.shots :
                          /\ contents' = InitialContents(ScreenshotOf(shot))
                          /\ borderOverlay' =
                               [active |-> TRUE,
                                capturing |-> CapturingAfter(shot, borderOverlay.capturing)]
                     /\ i' = 0
                     /\ actionHistory' = << >>
                     /\ AwaitDelegate
                     /\ turnDispatched' = turnDispatched + 1
                     /\ turnShots' = turnShots + 1
                     /\ turnDelegates' = turnDelegates + 1
                     /\ delegated' = TRUE
                     /\ visualModelCalls' = 0
                     /\ executed' = << >>
                     /\ invalidations' = 0
                     /\ invalidationFailed' = FALSE
                     /\ lastVisual' = NoAnswer
                     /\ UNCHANGED <<result, exitCause, loopVars, cancelAt,
                                    thrown, completions, invoked, turnActionSteps>>
              ELSE /\ pc' = "tool"
                   /\ turnDispatched' = turnDispatched + 1
                   /\ turnShots' = turnShots + ScreenshotsOnDispatch(call.name)
                   /\ UNCHANGED <<result, exitCause, borderOverlay, loopVars,
                                  callIdx, delegateVars, cancelAt, thrown,
                                  completions, invoked, turnDelegates,
                                  turnActionSteps, delegated, runVars>>
  /\ UNCHANGED <<skillVars, scenario, aborted, abortStep, messageParts, functionCalls, connects,
                 captures, turnSnaps, modelCalls, streamError, connectError,
                 clientFailed, domSnapshot, snapshotFailed>>

\* The end of one pass of the dispatch loop: the function response is pushed.
PushResponse(fnName, shape, text) ==
  /\ currentInputParts' = Append(currentInputParts, ResponsePart(fnName, shape, text))
  /\ callIdx' = callIdx + 1
  /\ pc' = "dispatch"

\* The awaited tool of the current call settles: the rest of the try, the
\* catch, and the push of the function response.
ToolReturn ==
  /\ pc = "tool"
  /\ LET call == functionCalls[callIdx]
         fnName == call.name
     IN  \E out \in OutcomesOf(fnName, scenario.outcomes) :
            /\ PushResponse(fnName, "string", FunctionResponseText(fnName, out))
            /\ thrown' = Append(thrown, IF out.kind = "throw" THEN Threw(out.error)
                                         ELSE NoThrow)
            /\ invoked' = Append(invoked, Invocation(call, HandlerArgs(call), out))
  /\ UNCHANGED <<skillVars, scenario, aborted, abortStep, result, exitCause, borderOverlay,
                 iterationCount, taskCompleted, taskSummary, messageParts,
                 functionCalls, delegateVars, connects, captures, turnSnaps,
                 modelCalls, turnDispatched, cancelAt, streamError, connectError,
                 clientFailed, completions, domSnapshot, snapshotFailed,
                 shotVars, runVars>>

\* What generateContent can answer in one delegate step: a rejection, a result
\* without candidate content, a response without function calls (with or
\* without text), or a response with function calls.
VisualResponses(vmenu, vkinds, n) ==
  {r \in {[kind |-> "throw", text |-> <<"visual model unavailable">>, calls |-> << >>],
          [kind |-> "none", text |-> Empty, calls |-> << >>],
          [kind |-> "final", text |-> <<"Clicked the button">>, calls |-> << >>],
          [kind |-> "silent", text |-> Empty, calls |-> << >>]} : r.kind \in vkinds}
  \cup {[kind |-> "calls", text |-> Empty, calls |-> q] :
          q \in IF "calls" \in vkinds
                  THEN CallSeqs(vmenu, n) \ {<< >>} ELSE {}}

\* Mutant: an action that throws ends the action loop of the step.
RECURSIVE HistoryEntriesStopAtThrow(_)
HistoryEntriesStopAtThrow(acts) ==
  IF acts = << >> THEN << >>
  ELSE IF acts[1].call.name \in VisualHandlers /\ acts[1].out.kind = "throw"
    THEN << >>
  ELSE << HistoryEntry(acts[1].call, VisualResult(acts[1].call, acts[1].out)) >>
       \o HistoryEntriesStopAtThrow(Tail(acts))

\* The history lines of the visual function calls of one response, in order.
RECURSIVE HistoryEntries(_)
HistoryEntries(acts) ==
  IF acts = << >> THEN << >>
  ELSE << HistoryEntry(acts[1].call, VisualResult(acts[1].call, acts[1].out)) >>
       \o HistoryEntries(Tail(acts))

\* Mutant: the function responses are pushed under the model's role.
StepResponsesAsModel(acts, screen) ==
  ContentEntry("model",
    [k \in 1..Len(acts) |-> "functionResponse"]
    \o (IF screen # Empty THEN <<"inlineData">> ELSE << >>))

\* The user-role entry pushed after the actions of a step: one function
\* response per call, then the new screenshot when its capture succeeded.
StepResponses(acts, screen) ==
  ContentEntry("user",
    [k \in 1..Len(acts) |-> "functionResponse"]
    \o (IF screen # Empty THEN <<"inlineData">> ELSE << >>))

ModelEntry(resp) ==
  ContentEntry("model",
    (IF resp.text # Empty THEN <<"text">> ELSE << >>)
    \o [k \in 1..Len(resp.calls) |-> "functionCall"])

\* runVisualDelegate returns output (the locals go out of scope) and the
\* dispatch case stores the returned record as the function response.
DelegateReturn(output) ==
  /\ PushResponse(functionCalls[callIdx].name, "record", output)
  /\ thrown' = Append(thrown, NoThrow)
  /\ invoked' = Append(invoked, Invocation(functionCalls[callIdx],
                                           HandlerArgs(functionCalls[callIdx]),
                                           Value(output, Empty)))
  /\ i' = 0
  /\ contents' = << >>
  /\ actionHistory' = << >>

\* The driver cache invalidation (getMcpClient, then evaluate_script) inside
\* its own try/catch: it succeeds or throws, and the throw is ignored, so
\* both outcomes leave the delegate in the same state.
InvalidationOutcomes == {"ok", "fail"}

\* Mutant: the invalidation is not wrapped in a try/catch, so its failure
\* replaces the summary the delegate was about to return.
InvalidateUncaught(output, inval) ==
  /\ invalidations' = invalidations + 1
  /\ invalidationFailed' = (inval = "fail")
  /\ DelegateReturn(IF inval = "fail"
                      THEN <<"Error: ">> \o <<"cache invalidation failed">>
                      ELSE output)

\* The end of a delegate run: one invalidation attempt whose failure is
\* swallowed by the empty catch, then the return of the summary.
InvalidateThenReturn(output, inval) ==
  /\ invalidations' = invalidations + 1
  /\ invalidationFailed' = (inval = "fail")
  /\ DelegateReturn(output)

\* One iteration of the delegate's for loop: generateContent settles, then
\* either the loop ends (rejection, no response, no function calls) or the
\* visual actions run, a screenshot is taken and the step counter advances;
\* the loop's exit at VISUAL_MAX_STEPS follows the last step.
DelegateStep ==
  /\ pc = "delegate"
  /\ visualModelCalls' = visualModelCalls + 1
  /\ \E resp \in VisualResponses(scenario.vmenu, scenario.vkinds, scenario.vwidth),
        shot \in scenario.shots, inval \in InvalidationOutcomes :
       /\ lastVisual' = resp
       /\ IF resp.kind = "throw"
            THEN /\ PushResponse(functionCalls[callIdx].name, "string",
                                 ExecErrorText(functionCalls[callIdx].name, resp.text))
                 /\ thrown' = Append(thrown, Threw(resp.text))
                 /\ invoked' = Append(invoked,
                                      Invocation(functionCalls[callIdx],
                                                 HandlerArgs(functionCalls[callIdx]),
                                                 Throw(resp.text)))
                 /\ i' = 0
                 /\ contents' = << >>
                 /\ actionHistory' = << >>
                 /\ UNCHANGED <<borderOverlay, executed, invalidations,
                                invalidationFailed, turnShots, turnActionSteps>>
          ELSE IF resp.kind = "none"
            THEN /\ InvalidateThenReturn(MaxStepsOutput(actionHistory), inval)
                 /\ UNCHANGED <<borderOverlay, executed, turnShots, turnActionSteps>>
          ELSE IF resp.kind \in {"final", "silent"}
            THEN /\ InvalidateThenReturn(
                      CompletedOutput(OrElse(resp.text, <<"Done">>), actionHistory),
                      inval)
                 /\ UNCHANGED <<borderOverlay, executed, turnShots, turnActionSteps>>
          ELSE LET history == actionHistory \o HistoryEntries(resp.calls)
               IN  /\ borderOverlay' =
                        [active |-> TRUE,
                         capturing |-> CapturingAfter(shot, borderOverlay.capturing)]
                   /\ executed' = executed \o resp.calls
                   /\ turnShots' = turnShots + 1
                   /\ turnActionSteps' = turnActionSteps + 1
                   /\ IF i + 1 >= VISUAL_MAX_STEPS
                        THEN InvalidateThenReturn(MaxStepsOutput(history), inval)
                        ELSE /\ i' = i + 1
                             /\ actionHistory' = history
                             /\ contents' = contents \o
                                  << ModelEntry(resp),
                                     StepResponses(resp.calls, ScreenshotOf(shot)) >>
                             /\ UNCHANGED <<pc, currentInputParts, callIdx, thrown,
                                            invoked, invalidations,
                                            invalidationFailed>>
  /\ UNCHANGED <<skillVars, scenario, aborted, abortStep, result, exitCause, iterationCount,
                 taskCompleted, taskSummary, messageParts, functionCalls,
                 connects, captures, turnSnaps, modelCalls, turnDispatched,
                 cancelAt, streamError, connectError, clientFailed, completions,
                 domSnapshot, snapshotFailed, turnDelegates, delegated>>

Next ==
  \/ Abort
  \/ Connect
  \/ LoopTop
  \/ CaptureClient
  \/ CaptureSnapshot
  \/ StreamChunk
  \/ StreamEnd
  \/ StreamError
  \/ Dispatch
  \/ ToolReturn
  \/ DelegateStep

Spec == Init /\ [][Next]_vars

\* No browser task is running: runTask has not been entered.
AgentIdle == InitWith({Scenario({}, {}, {}, {}, {})}) /\ ~aborted

\* ----------------------------------------------------- ActivateSkillTool

MaxSkills == 2

MaxRequests == 2

\* The characters String.prototype.trim removes, as far as the names here
\* hold them.
Whitespace == {" ", "\t"}

\* The names a tool call may carry in params.name: empty, blank, the name of
\* a skill, a skill's name with a leading blank, an unknown name.
RequestNames ==
  {Empty, <<" ">>, <<" ", "\t">>, <<"p", "d", "f">>, <<"g", "i", "t">>,
   <<" ", "g", "i", "t">>, <<"x">>}

\* The names the configured skills may have.
SkillNames == {<<"p", "d", "f">>, <<"g", "i", "t">>}

Skill(name) == [name |-> name]

RECURSIVE SkillLists(_)
SkillLists(n) ==
  IF n = 0 THEN {<< >>}
  ELSE SkillLists(n - 1)
       \cup {Append(l, Skill(nm)) : l \in SkillLists(n - 1), nm \in SkillNames}

RECURSIVE TrimStart(_)
TrimStart(t) ==
  IF t # Empty /\ t[1] \in Whitespace THEN TrimStart(Tail(t)) ELSE t

RECURSIVE TrimEnd(_)
TrimEnd(t) ==
  IF t # Empty /\ t[Len(t)] \in Whitespace
    THEN TrimEnd(SubSeq(t, 1, Len(t) - 1)) ELSE t

\* String.prototype.trim.
Trim(t) == TrimEnd(TrimStart(t))

NameRequired == <<"The 'name' parameter must be non-empty.">>

\* Mutant: the name is checked for emptiness only, without trim().
validateToolParamValuesNoTrim(p) ==
  IF p.name = Empty THEN NameRequired ELSE Empty

\* ActivateSkillTool.validateToolParamValues; Empty stands for null.
validateToolParamValues(p) ==
  IF p.name = Empty \/ Trim(p.name) = Empty THEN NameRequired ELSE Empty

\* Array.prototype.find: the position of the first skill with that name, 0
\* when there is none.
FindSkill(list, name) ==
  IF \E k \in 1..Len(list) : list[k].name = name
    THEN CHOOSE k \in 1..Len(list) :
           /\ list[k].name = name
           /\ \A j \in 1..(k - 1) : list[j].name # name
    ELSE 0

SkillNamesOf(list) == [k \in 1..Len(list) |-> list[k].name]

NotFoundResult(skillName, list) ==
  [llmContent |-> <<"Error: Skill \"">> \o skillName
                  \o <<"\" not found. Available skills are: ">>
                  \o Join(SkillNamesOf(list), <<", ">>),
   returnDisplay |-> <<"Skill \"">> \o skillName \o <<"\" not found.">>]

ActivatedResult(skillName) ==
  [llmContent |-> <<"Skill \"">> \o skillName
                  \o <<"\" activated successfully. Its detailed instructions are now part of your system prompt for the rest of this session. You do not need to read its SKILL.md file anymore.">>,
   returnDisplay |-> <<"Skill \"">> \o skillName \o <<"\" activated.">>]

\* A process with some configured skills, the tool not yet called.
ToolInit ==
  /\ configSkills \in SkillLists(MaxSkills)
  /\ params = [name |-> Empty]
  /\ toolPc = "idle"
  /\ validationError = Empty
  /\ toolResult = NoToolResult
  /\ invocations = << >>
  /\ activated = << >>

\* The tool is handed the params of a call: validateToolParamValues runs and
\* createInvocation is reached only when it returned null.
Build ==
  /\ toolPc \in {"idle", "rejected", "done"}
  /\ Len(invocations) < MaxRequests
  /\ \E name \in RequestNames :
       LET p == [name |-> name]
           error == validateToolParamValues(p)
       IN  /\ params' = p
           /\ validationError' = error
           /\ IF error # Empty
                THEN /\ toolPc' = "rejected"
                     /\ UNCHANGED invocations
                ELSE /\ toolPc' = "invocation"
                     /\ invocations' = Append(invocations, p)
  /\ UNCHANGED <<agentVars, discoverVars, configSkills, toolResult, activated>>

\* ActivateSkillToolInvocation.execute.
Execute ==
  /\ toolPc = "invocation"
  /\ LET skillName == params.name
         list == configSkills
         skill == FindSkill(list, skillName)
     IN  IF skill = 0
           THEN /\ toolResult' = NotFoundResult(skillName, list)
                /\ UNCHANGED activated
           ELSE /\ activated' = Append(activated, skillName)
                /\ toolResult' = ActivatedResult(skillName)
  /\ toolPc' = "done"
  /\ UNCHANGED <<agentVars, discoverVars, configSkills, params, validationError,
                 invocations>>

ActivateNext ==
  \/ Build
  \/ Execute

ActivateInit == AgentIdle /\ ToolInit /\ DiscoverIdle

ActivateSpec == ActivateInit /\ [][ActivateNext]_vars

\* ------------------------------------------------- SkillDiscoveryService

MaxPaths == 3

\* The search paths a caller may pass, relative to the working directory /w.
SearchPaths == {"skills", "./skills", "ext", "locked", "notes.txt", "missing"}

\* path.resolve: the absolute, normalised path.
Resolve(searchPath) ==
  CASE searchPath = "skills" -> "/w/skills"
    [] searchPath = "./skills" -> "/w/skills"
    [] searchPath = "ext" -> "/w/ext"
    [] searchPath = "locked" -> "/w/locked"
    [] searchPath = "notes.txt" -> "/w/notes.txt"
    [] OTHER -> "/w/missing"

\* fs.stat(...).catch(() => null) and stats.isDirectory(): a directory, a
\* file, or none (stat rejected).
Stat(absolute) ==
  IF absolute \in {"/w/skills", "/w/ext", "/w/locked"} THEN "dir"
  ELSE IF absolute = "/w/notes.txt" THEN "file"
  ELSE "none"

AlphaSkill == "/w/skills/alpha/SKILL.md"

BetaSkill == "/w/skills/beta/SKILL.md"

GammaSkill == "/w/ext/gamma/SKILL.md"

\* glob('*/SKILL.md', {cwd, absolute, nodir}): the files found, in the order
\* glob gives them, or a rejection (the directory cannot be read).
Glob(absolute) ==
  CASE absolute = "/w/skills" -> [kind |-> "ok", found |-> <<AlphaSkill, BetaSkill>>]
    [] absolute = "/w/ext" -> [kind |-> "ok", found |-> <<GammaSkill>>]
    [] OTHER -> [kind |-> "throw", found |-> << >>]

\* The values a frontmatter key may hold, by their typeof.
Str(v) == [type |-> "string", value |-> v]

Num == [type |-> "number", value |-> Empty]

Absent == [type |-> "undefined", value |-> Empty]

\* What yaml.load makes of the frontmatter: a mapping, a scalar, nothing, or
\* an exception.
YamlObject(name, description) ==
  [kind |-> "object", name |-> name, description |-> description]

YamlOther(kind) == [kind |-> kind, name |-> Absent, description |-> Absent]

\* A SKILL.md: whether readFile succeeds, whether the frontmatter pattern
\* matches, and what the matched text loads to.
FileContent(read, match, yaml) == [read |-> read, match |-> match, yaml |-> yaml]

ValidSkill(name) ==
  FileContent("ok", TRUE, YamlObject(Str(name), Str(<<"does things">>)))

Unreadable == FileContent("error", FALSE, YamlOther("null"))

NoFrontmatter == FileContent("ok", FALSE, YamlOther("null"))

InvalidSkills ==
  {Unreadable, NoFrontmatter,
   FileContent("ok", TRUE, YamlOther("null")),
   FileContent("ok", TRUE, YamlOther("scalar")),
   FileContent("ok", TRUE, YamlOther("throws")),
   FileContent("ok", TRUE, YamlObject(Num, Str(<<"does things">>))),
   FileContent("ok", TRUE, YamlObject(Str(<<"alpha">>), Absent))}

\* The file systems: what the three SKILL.md files hold.
FileSystems ==
  {[f \in {AlphaSkill, BetaSkill, GammaSkill} |->
      IF f = AlphaSkill THEN a ELSE IF f = BetaSkill THEN b ELSE g] :
     a \in InvalidSkills \cup {ValidSkill(<<"alpha">>)},
     b \in {NoFrontmatter, ValidSkill(<<"beta">>)},
     g \in {Unreadable, ValidSkill(<<"alpha">>)}}

RECURSIVE PathLists(_)
PathLists(n) ==
  IF n = 0 THEN {<< >>}
  ELSE PathLists(n - 1)
       \cup {Append(l, p) : l \in PathLists(n - 1), p \in SearchPaths}

\* SkillDiscoveryService.parseSkillFile: the metadata in a one-element
\* sequence, or the empty sequence for null.
parseSkillFile(filePath, content) ==
  IF content.read # "ok" THEN << >>
  ELSE IF ~content.match THEN << >>
  ELSE IF content.yaml.kind = "throws" THEN << >>
  ELSE IF content.yaml.kind # "object" THEN << >>
  ELSE IF content.yaml.name.type # "string"
          \/ content.yaml.description.type # "string" THEN << >>
  ELSE << [name |-> content.yaml.name.value,
           description |-> content.yaml.description.value,
           location |-> filePath] >>

\* Mutant: the seenLocations check is missing.
NeverSeen(skillFile, seen) == FALSE

\* seenLocations.has(skillFile).
AlreadySeen(skillFile, seen) == skillFile \in seen

\* discoverSkills is entered with some paths on some file system.
DiscoverInit ==
  /\ files \in FileSystems
  /\ paths \in PathLists(MaxPaths)
  /\ pathIdx = 1
  /\ skillFiles = << >>
  /\ skills = << >>
  /\ seenLocations = {}
  /\ discoverPc = "path"

\* One iteration of the loop over paths up to the inner loop: resolve, stat,
\* glob; a path that is no directory is skipped and an error ends the
\* iteration in the catch.
DiscoverPath ==
  /\ discoverPc = "path"
  /\ pathIdx <= Len(paths)
  /\ LET absoluteSearchPath == Resolve(paths[pathIdx])
         stats == Stat(absoluteSearchPath)
         globbed == Glob(absoluteSearchPath)
     IN  IF stats # "dir" \/ globbed.kind = "throw"
           THEN /\ pathIdx' = pathIdx + 1
                /\ UNCHANGED <<skillFiles, discoverPc>>
           ELSE /\ skillFiles' = globbed.found
                /\ discoverPc' = "file"
                /\ UNCHANGED pathIdx
  /\ UNCHANGED <<agentVars, toolVars, files, paths, skills, seenLocations>>

\* One iteration of the loop over skillFiles, or its end.
DiscoverFile ==
  /\ discoverPc = "file"
  /\ IF skillFiles = << >>
       THEN /\ pathIdx' = pathIdx + 1
            /\ discoverPc' = "path"
            /\ UNCHANGED <<skillFiles, skills, seenLocations>>
       ELSE LET skillFile == Head(skillFiles)
                metadata == parseSkillFile(skillFile, files[skillFile])
            IN  /\ skillFiles' = Tail(skillFiles)
                /\ IF ~AlreadySeen(skillFile, seenLocations) /\ metadata # << >>
                     THEN /\ skills' = skills \o metadata
                          /\ seenLocations' = seenLocations \cup {skillFile}
                     ELSE UNCHANGED <<skills, seenLocations>>
                /\ UNCHANGED <<pathIdx, discoverPc>>
  /\ UNCHANGED <<agentVars, toolVars, files, paths>>

\* return skills after the last path.
DiscoverReturn ==
  /\ discoverPc = "path"
  /\ pathIdx > Len(paths)
  /\ discoverPc' = "returned"
  /\ UNCHANGED <<agentVars, toolVars, files, paths, pathIdx, skillFiles, skills,
                 seenLocations>>

DiscoverNext ==
  \/ DiscoverPath
  \/ DiscoverFile
  \/ DiscoverReturn

DiscoverStart == AgentIdle /\ ToolIdle /\ DiscoverInit

DiscoverSpec == DiscoverStart /\ [][DiscoverNext]_vars

\* ------------------------------------------------------------------ claims

\* The awaits inside a turn.
InTurn == {"capture", "snapshot", "stream", "dispatch", "tool", "delegate"}

Last(q) == q[Len(q)]

\* The function calls of a turn that carry a name.
NamedCount(calls) == Cardinality({k \in 1..Len(calls) : calls[k].name # ""})

\* C1: runTask makes at most MAX_ITERATIONS streaming model calls and at most
\* MAX_ITERATIONS automatic state captures, and every turn that does not end
\* the task, re-prompt turns included, counts for exactly one iteration: inside
\* turn n the counter is n - 1, between turns it equals the turns begun.
C1_TurnCap ==
  /\ modelCalls <= MAX_ITERATIONS
  /\ captures <= MAX_ITERATIONS
  /\ modelCalls <= captures
  /\ turnSnaps <= 1
  /\ pc \in InTurn => captures = iterationCount + 1
  /\ pc = "loopTop" => captures = iterationCount

\* C1 witness: the cap is exhausted after MAX_ITERATIONS model calls, the last
\* turn having been a corrective re-prompt turn.
C1_Witness ==
  /\ pc = "done"
  /\ exitCause = "cap"
  /\ modelCalls = MAX_ITERATIONS
  /\ captures = MAX_ITERATIONS
  /\ currentInputParts = RepromptInput

\* C2 as stated: whenever a complete_task call with a non-empty summary s was
\* dispatched, runTask returns exactly s.
C2_Original ==
  pc = "done" =>
    \A k \in 1..Len(completions) :
       completions[k] # Empty => result = completions[k]

\* C2 amended: when the last complete_task call dispatched in a turn carries a
\* non-empty summary s, runTask returns exactly s; and once a complete_task call
\* was dispatched no further state capture and no further model call happens.
C2_LastSummaryReturned ==
  /\ [](pc = "done" /\ completions # << >> /\ Last(completions) # Empty
          => result = Last(completions))
  /\ [][completions # << >>
          => captures' = captures /\ modelCalls' = modelCalls]_vars

\* C2 witness: complete_task("Done") and another call were dispatched in the
\* same turn and runTask returned "Done".
C2_Witness ==
  /\ pc = "done"
  /\ completions = << <<"Done">> >>
  /\ Len(functionCalls) = 2
  /\ functionCalls[2].name = "navigate"
  /\ Len(currentInputParts) = 2
  /\ result = <<"Done">>

\* C3 as stated: in every turn exactly one automatic take_snapshot call has been
\* issued to the driver when the model is invoked.
C3_Original == pc = "stream" => turnSnaps = 1

\* C3 amended: in every turn in which the driver client is obtained exactly one
\* automatic take_snapshot call is issued, before the turn's model call, also
\* after a turn in which the model dispatched take_snapshot itself; only when
\* obtaining the client throws no such call is issued in that turn.
C3_OneCapturePerTurn ==
  /\ turnSnaps <= 1
  /\ pc = "snapshot" => turnSnaps = 1 /\ ~clientFailed /\ modelCalls = captures - 1
  /\ pc \in {"stream", "dispatch", "tool", "delegate"}
       => (turnSnaps = 1 <=> ~clientFailed) /\ modelCalls = captures
  /\ pc = "stream" /\ (\E k \in 1..Len(messageParts) : IsTreePart(messageParts[k]))
       => turnSnaps = 1

\* C3 witness: the model is invoked in a turn whose automatic capture was
\* issued although the previous turn dispatched take_snapshot.
C3_Witness ==
  /\ pc = "stream"
  /\ turnSnaps = 1
  /\ iterationCount >= 1
  /\ \E k \in 1..Len(currentInputParts) : currentInputParts[k].name = "take_snapshot"
  /\ IsTreePart(messageParts[1])

\* C4: when the signal is aborted while no call of the turn has been dispatched
\* yet, no call of the turn is handed to a handler afterwards, and no further
\* state capture or model call is started.
C4_NoDispatchAfterEarlyCancel ==
  [][(aborted /\ turnDispatched = 0 /\ pc \in {"stream", "dispatch", "loopTop"})
       => /\ turnDispatched' = 0
          /\ captures' = captures
          /\ modelCalls' = modelCalls
          /\ pc' \in {"done", "loopTop"}]_vars

\* C4 witness: two named calls were queued, the checkpoint before the first
\* dispatch observed the abort, and runTask returned with none of them run.
C4_Witness ==
  /\ pc = "done"
  /\ cancelAt = "dispatch"
  /\ turnDispatched = 0
  /\ currentInputParts = << >>
  /\ Len(functionCalls) = 2
  /\ \A k \in 1..2 : functionCalls[k].name # ""

\* C5 as stated: a run stopped by an observed cancellation, without completion,
\* returns a string other than the one returned on iteration-cap exhaustion.
C5_CancelNotice ==
  (pc = "done" /\ exitCause = "cancel" /\ ~taskCompleted)
    => result # TaskFinishedText

\* C6: once a checkpoint observed the abort, no state capture, model call or
\* tool dispatch is started and the collected responses are left as they are;
\* a tool call already in flight still delivers its response.
C6_NoWorkAfterCancelObserved ==
  [][/\ cancelAt # ""
          => /\ captures' = captures
             /\ turnSnaps' = turnSnaps
             /\ modelCalls' = modelCalls
             /\ turnDispatched' = turnDispatched
             /\ currentInputParts' = currentInputParts
     /\ (pc = "tool" /\ pc' # "tool")
          => /\ Len(currentInputParts') = Len(currentInputParts) + 1
             /\ SubSeq(currentInputParts', 1, Len(currentInputParts)) = currentInputParts]_vars

\* C6 witness: the first of two calls was dispatched and answered, the abort
\* was observed before the second, and runTask returned keeping the response.
C6_Witness ==
  /\ pc = "done"
  /\ cancelAt = "dispatch"
  /\ turnDispatched = 1
  /\ Len(functionCalls) = 2
  /\ \A k \in 1..2 : functionCalls[k].name = "press_key"
  /\ Len(currentInputParts) = 1

\* C7: a throwing handler of the dispatch switch or of the passthrough (the
\* delegate included) yields the response "Error executing <name>: <message>",
\* the dispatch loop goes on with the next call, and a turn that was not
\* cancelled ends with one response per named call.
C7_ThrowBecomesErrorResponse ==
  /\ [](/\ \A k \in 1..Len(thrown) :
             (thrown[k].threw /\ Tier(currentInputParts[k].name) < 3)
               => /\ currentInputParts[k].kind = "functionResponse"
                  /\ currentInputParts[k].shape = "string"
                  /\ currentInputParts[k].text =
                       <<"Error executing ", currentInputParts[k].name, ": ">>
                       \o thrown[k].message
        /\ (pc \in {"loopTop", "capture", "snapshot"} /\ functionCalls # << >>
              /\ cancelAt = "")
             => Len(currentInputParts) = NamedCount(functionCalls))
  /\ [][(pc \in {"tool", "delegate"} /\ Len(thrown') > Len(thrown))
          => /\ pc' = "dispatch"
             /\ callIdx' = callIdx + 1
             /\ exitCause' = ""]_vars

\* C7 witness: the delegate threw for the first call of a turn, and the second
\* call of the turn was dispatched and answered after it.
C7_Witness ==
  /\ pc = "dispatch"
  /\ Len(currentInputParts) = 2
  /\ currentInputParts[1].name = "delegate_to_visual_agent"
  /\ thrown[1].threw
  /\ currentInputParts[2].name = "press_key"

\* C8 as stated: a stream error whose message contains the empty-response
\* marker does not make runTask return.
C8_EmptyStreamRecovers ==
  ~(/\ pc = "done"
    /\ exitCause = "stream"
    /\ Includes(ModelErrorText(streamError), EmptyStreamMarker))

\* C9: a stream error other than the empty-response error ends runTask at once
\* with "Error calling model: <message>"; no call accumulated from the stream is
\* dispatched and no further turn is begun.
C9_StreamErrorIsFatal ==
  (streamError # Empty /\ ~Includes(streamError, EmptyStreamMarker))
    => /\ pc = "done"
       /\ exitCause = "stream"
       /\ result = <<"Error calling model: ">> \o streamError
       /\ turnDispatched = 0
       /\ captures = modelCalls
       /\ captures = iterationCount + 1

\* C9 witness: the stream failed after it had delivered function calls.
C9_Witness ==
  /\ pc = "done"
  /\ streamError = <<"quota exceeded">>
  /\ Len(functionCalls) = 2
  /\ turnDispatched = 0

\* C10: a failed connection ends runTask with "Error: Failed to connect to
\* browser: <message>" after one connection attempt, before any state capture,
\* model call or tool dispatch.
C10_ConnectFailureIsFatal ==
  connectError # Empty
    => /\ pc = "done"
       /\ exitCause = "connect"
       /\ result = <<"Error: Failed to connect to browser: ">> \o connectError
       /\ connects = 1
       /\ captures = 0
       /\ turnSnaps = 0
       /\ modelCalls = 0
       /\ turnDispatched = 0

\* C10 witness: ensureConnection threw.
C10_Witness ==
  /\ pc = "done"
  /\ connectError = <<"Chrome is not running">>
  /\ result = <<"Error: Failed to connect to browser: ", "Chrome is not running">>

\* The payload parts hold the part p.
Carries(parts, p) == \E j \in 1..Len(parts) : parts[j] = p

\* C11: a failing state capture (getMcpClient or take_snapshot throws) does
\* not end the task: domSnapshot stays empty, the payload of the turn is the
\* carried-over input without any accessibility-tree part, and the model is
\* invoked in that turn; the only other way on from the failed capture is the
\* cancellation checkpoint that follows every capture.
C11_CaptureFailureNotFatal ==
  /\ []((pc = "stream" /\ (clientFailed \/ snapshotFailed))
          => /\ domSnapshot = Empty
             /\ \A k \in 1..Len(messageParts) : ~IsTreePart(messageParts[k])
             /\ messageParts = currentInputParts
             /\ modelCalls = captures
             /\ exitCause = "")
  /\ [][(pc \in {"capture", "snapshot"} /\ (clientFailed' \/ snapshotFailed'))
          => \/ /\ pc' = "stream"
                /\ modelCalls' = modelCalls + 1
                /\ exitCause' = ""
             \/ /\ pc' = "done"
                /\ aborted
                /\ exitCause' = "cancel"
                /\ cancelAt' = "capture"]_vars

\* C11 witness: take_snapshot threw in a later turn and the model is invoked
\* with the tool response of the previous turn alone.
C11_Witness ==
  /\ pc = "stream"
  /\ snapshotFailed
  /\ iterationCount >= 1
  /\ Len(messageParts) = 1
  /\ messageParts[1].kind = "functionResponse"

\* C12 as stated: the payload that follows a turn without function calls has
\* exactly one part, the re-prompt.
C12_Original ==
  [][(pc \in {"capture", "snapshot"} /\ pc' = "stream" /\ iterationCount > 0
        /\ functionCalls = << >>)
       => messageParts' = << TextPart(RepromptText) >>]_vars

\* C12 amended: the payload that follows a turn without function calls is the
\* accessibility-tree part of the fresh snapshot, when that is not empty,
\* followed by exactly one carried-over part, the re-prompt; it holds no
\* function response of an earlier turn.
C12_RepromptReplacesCarriedParts ==
  [][(pc \in {"capture", "snapshot"} /\ pc' = "stream" /\ iterationCount > 0
        /\ functionCalls = << >>)
       => /\ currentInputParts = << TextPart(RepromptText) >>
          /\ \/ messageParts' = << TextPart(RepromptText) >>
             \/ /\ domSnapshot' # Empty
                /\ messageParts' =
                     << TextPart(TreeText(domSnapshot')), TextPart(RepromptText) >>
          /\ \A k \in 1..Len(messageParts') :
                messageParts'[k].kind # "functionResponse"]_vars

\* C12 witness: the third turn's payload, after a turn without function calls,
\* is the fresh tree followed by the re-prompt.
C12_Witness ==
  /\ pc = "stream"
  /\ iterationCount = 2
  /\ Len(messageParts) = 2
  /\ IsTreePart(messageParts[1])
  /\ messageParts[2] = TextPart(RepromptText)

C14_SnapshotFirst ==
  pc = "stream"
    => /\ \A k \in 2..Len(messageParts) : ~IsTreePart(messageParts[k])
       /\ IF messageParts # << >> /\ IsTreePart(messageParts[1])
            THEN /\ turnSnaps = 1
                 /\ domSnapshot # Empty
                 /\ messageParts[1] = TextPart(TreeText(domSnapshot))
                 /\ Tail(messageParts) = currentInputParts
            ELSE /\ domSnapshot = Empty
                 /\ messageParts = currentInputParts

\* C14 witness: a payload with the tree first and two tool responses after it.
C14_Witness ==
  /\ pc = "stream"
  /\ Len(messageParts) = 3
  /\ IsTreePart(messageParts[1])
  /\ messageParts[2].kind = "functionResponse"
  /\ messageParts[3].kind = "functionResponse"

\* C15: runTask always settles by returning a string, never by an unhandled
\* fault.
C15_AlwaysReturnsString == pc = "done" => exitCause # "fault"

C17_DelegateMaxSteps ==
  /\ [](visualModelCalls <= VISUAL_MAX_STEPS)
  /\ [][(pc = "delegate" /\ visualModelCalls' = VISUAL_MAX_STEPS
           /\ lastVisual'.kind = "calls")
          => /\ pc' = "dispatch"
             /\ Len(executed') >= VISUAL_MAX_STEPS
             /\ Last(currentInputParts') =
                  ResponsePart("delegate_to_visual_agent", "record",
                               <<"Visual Agent reached max steps.\nActions Taken:\n">>
                               \o Join(HistoryEntries(executed'), <<"\n">>))
             /\ ~Last(thrown').threw]_vars

\* C17 witness: five steps with one visual action each, then the max-steps
\* summary as the response of the delegate call.
C17_Witness ==
  /\ pc = "dispatch"
  /\ visualModelCalls = VISUAL_MAX_STEPS
  /\ lastVisual.kind = "calls"
  /\ Len(executed) = VISUAL_MAX_STEPS
  /\ Last(currentInputParts).name = "delegate_to_visual_agent"
  /\ Last(currentInputParts).text[1] = MaxStepsMarker

\* C18: a delegate response without function calls ends the delegate run: no
\* visual action and no screenshot in that step, one cache invalidation is
\* attempted, and the delegate returns the completion summary built from the
\* final text ('Done' when there is none) and the history of the actions
\* executed in the earlier steps, in order.
C18_NoCallsCompletesDelegate ==
  [][(pc = "delegate" /\ visualModelCalls' = visualModelCalls + 1
        /\ lastVisual'.kind \in {"final", "silent"})
       => /\ pc' = "dispatch"
          /\ executed' = executed
          /\ turnShots' = turnShots
          /\ invalidations' = invalidations + 1
          /\ Last(currentInputParts') =
               ResponsePart("delegate_to_visual_agent", "record",
                            <<"Visual Agent Completed.\nFinal Message: ">>
                            \o (IF lastVisual'.text # Empty THEN lastVisual'.text
                                ELSE <<"Done">>)
                            \o <<"\nActions Taken:\n">>
                            \o Join(HistoryEntries(executed), <<"\n">>))
          /\ ~Last(thrown').threw]_vars

\* C18 witness: two steps executed an action each, the third answered with a
\* final text and the delegate returned after one invalidation attempt.
C18_Witness ==
  /\ pc = "dispatch"
  /\ lastVisual.kind = "final"
  /\ visualModelCalls = 3
  /\ Len(executed) = 2
  /\ invalidations = 1
  /\ Last(currentInputParts).name = "delegate_to_visual_agent"

\* C19: captureScreenshot is called only for delegation: never in a run that
\* dispatched no delegate_to_visual_agent call, and in a turn once per
\* dispatched delegate call plus once per delegate step that executed actions.
C19_ScreenshotOnDemand ==
  /\ ~delegated => turnShots = 0 /\ turnDelegates = 0 /\ ~borderOverlay.capturing
  /\ turnShots = turnDelegates + turnActionSteps
  /\ turnActionSteps <= VISUAL_MAX_STEPS * turnDelegates
  /\ turnDelegates <= turnDispatched

\* C19 witness: one delegate call whose five steps all executed actions: six
\* screenshots in the turn.
C19_Witness ==
  /\ pc = "dispatch"
  /\ turnDelegates = 1
  /\ turnActionSteps = VISUAL_MAX_STEPS
  /\ turnShots = VISUAL_MAX_STEPS + 1

\* C20: a call resolved by the reflective fallback whose method is missing,
\* returns nothing or throws gets the response "Tool <name> not implemented in
\* agent loop."; the dispatch loop goes on with the next call and the run is
\* not ended by it.
C20_UnknownToolSoftFails ==
  /\ [](\A k \in 1..Len(invoked) :
           (Tier(invoked[k].call.name) = 3
              /\ invoked[k].out.kind \in {"undefined", "throw"})
             => currentInputParts[k] =
                  ResponsePart(invoked[k].call.name, "string",
                               <<"Tool ", invoked[k].call.name,
                                 " not implemented in agent loop.">>))
  /\ [][(pc = "tool" /\ Tier(functionCalls[callIdx].name) = 3 /\ pc' # "tool")
          => /\ pc' = "dispatch"
             /\ callIdx' = callIdx + 1
             /\ Len(currentInputParts') = Len(currentInputParts) + 1
             /\ exitCause' = ""
             /\ taskCompleted' = taskCompleted]_vars

\* C20 witness: zoom_in, which no tier knows, was answered with the
\* not-implemented text and the next call of the turn, navigate, was run.
C20_Witness ==
  /\ pc = "dispatch"
  /\ Len(currentInputParts) = 2
  /\ currentInputParts[1] =
       ResponsePart("zoom_in", "string", NotImplementedText("zoom_in"))
  /\ invoked[1].out.kind = "undefined"
  /\ currentInputParts[2].name = "navigate"

ResponseCount(parts) ==
  Cardinality({k \in 1..Len(parts) : parts[k].kind = "functionResponse"})

\* C23: function responses are paired 1:1 with function calls. When a turn
\* that dispatched function calls is followed by another turn, the payload
\* sent in that next turn holds exactly as many function responses as the
\* model emitted function calls (functionCalls still holds the previous turn's
\* calls while the next turn captures its state).
C23_ResponsesPairCalls ==
  [][(pc \in {"capture", "snapshot"} /\ pc' = "stream" /\ functionCalls # << >>) =>
       ResponseCount(messageParts') = Len(functionCalls)]_vars

\* C24: when the 20-turn cap is exhausted, no completion action was dispatched
\* in the run, so no summary exists and runTask returns exactly the generic
\* "Task finished" text; a summary exists only once a completion action was
\* dispatched.
C24_CapReturnsTaskFinished ==
  /\ taskSummary # Empty => taskCompleted
  /\ taskCompleted => completions # << >>
  /\ exitCause = "cap" =>
       /\ iterationCount = MAX_ITERATIONS
       /\ ~taskCompleted
       /\ completions = << >>
       /\ taskSummary = Empty
       /\ result = TaskFinishedText

\* The cap is exhausted by a run whose last turn dispatched function calls.
C24_Witness ==
  /\ pc = "done"
  /\ exitCause = "cap"
  /\ functionCalls # << >>
  /\ currentInputParts # << >>
  /\ result = TaskFinishedText

\* C25: each named function call is resolved by exactly one tier, chosen by its
\* name. The declared semantic tools without a case of their own are pagedown,
\* pageup and open_web_browser. A call with a case gets the answer of that
\* case only (the tool's text, or the execution error when it throws); a
\* declared tool without a case is forwarded with its arguments to the driver's
\* native tool call and gets the joined text segments or, when the call
\* throws, the execution error and not the answer of the reflective fallback;
\* any other name gets the answer of the reflective fallback only. Each call
\* is answered by one invocation and one function response.
C25_OneTierPerCall ==
  /\ semanticTools \ DirectHandlers = {"pagedown", "pageup", "open_web_browser"}
  /\ pc \in {"dispatch", "tool", "delegate"} => Len(invoked) = Len(currentInputParts)
  /\ \A k \in 1..Len(invoked) :
        LET fnName == invoked[k].call.name
            out == invoked[k].out
            text == currentInputParts[k].text
        IN  /\ currentInputParts[k].name = fnName
            /\ fnName \in OutputHandlers \cup {"scroll_document"} =>
                  /\ out.kind \in {"value", "throw"}
                  /\ out.content = << >>
                  /\ out.kind = "throw" => text = ExecErrorText(fnName, out.error)
                  /\ out.kind = "value" => text \in {out.output, out.error}
                  /\ text # NotImplementedText(fnName)
            /\ fnName \in semanticTools \ DirectHandlers =>
                  /\ invoked[k].arg = invoked[k].call.arg
                  /\ out.kind \in {"value", "throw"}
                  /\ out.kind = "throw" => text = ExecErrorText(fnName, out.error)
                  /\ out.kind = "value" => text = Join(out.content, <<"\n">>)
            /\ fnName \notin semanticTools \cup DirectHandlers =>
                  /\ out.kind = "value" => text = OrElse(out.output, out.error)
                  /\ out.kind # "value" => text = NotImplementedText(fnName)

\* In one turn pagedown was forwarded to the driver and threw, answered by
\* the execution error, and was forwarded again and answered with text.
C25_Witness ==
  /\ pc = "dispatch"
  /\ Len(invoked) = 2
  /\ invoked[1].call = Pagedown
  /\ invoked[1].out.kind = "throw"
  /\ currentInputParts[1].text = ExecErrorText("pagedown", <<"boom">>)
  /\ invoked[2].call = Pagedown
  /\ invoked[2].arg = <<"{}">>
  /\ currentInputParts[2].text = <<"scrolled", "\n", "page 2">>

IsNamed(call) == call.name # ""

\* The calls of the first n function calls that the dispatch loop does not skip.
NamedCalls(calls, n) == SelectSeq(SubSeq(calls, 1, n), IsNamed)

IsPrefix(a, b) == Len(a) <= Len(b) /\ SubSeq(b, 1, Len(a)) = a

\* The names of the function responses of a payload, in order.
ResponseNames(parts) ==
  LET IsResponse(p) == p.kind = "functionResponse"
      responses == SelectSeq(parts, IsResponse)
  IN  [k \in 1..Len(responses) |-> responses[k].name]

\* C26: within a turn the function calls are dispatched one after another in
\* the order the model emitted them. The calls of later chunks are appended to
\* those of earlier chunks; while a call is running every named call before it
\* has finished and has its response, and no later call has started; the
\* responses are in the order of the calls, and the next payload holds them in
\* that order.
C26_DispatchInEmissionOrder ==
  /\ [](pc \in {"dispatch", "tool", "delegate"} =>
          /\ callIdx >= 1
          /\ [k \in 1..Len(invoked) |-> invoked[k].call]
               = NamedCalls(functionCalls,
                            IF callIdx - 1 < Len(functionCalls) THEN callIdx - 1
                                                                ELSE Len(functionCalls))
          /\ ResponseNames(currentInputParts)
               = [k \in 1..Len(invoked) |-> invoked[k].call.name]
          /\ pc \in {"tool", "delegate"} =>
               /\ callIdx <= Len(functionCalls)
               /\ turnDispatched = Len(invoked) + 1)
  /\ [](pc = "stream" /\ invoked # << >> =>
          ResponseNames(messageParts)
            = [k \in 1..Len(invoked) |-> invoked[k].call.name])
  /\ [][(pc = "stream" /\ pc' = "stream") => IsPrefix(functionCalls, functionCalls')]_vars
  /\ [][(pc \in {"dispatch", "tool", "delegate"}) =>
          /\ functionCalls' = functionCalls
          /\ callIdx' \in {callIdx, callIdx + 1}
          /\ IsPrefix(currentInputParts, currentInputParts')]_vars

\* The model emitted navigate and then complete_task; navigate was run and
\* answered first, then complete_task.
C26_Witness ==
  /\ pc = "dispatch"
  /\ functionCalls = <<Navigate, CompleteDone>>
  /\ callIdx = 3
  /\ ResponseNames(currentInputParts) = <<"navigate", "complete_task">>
  /\ invoked[1].out.kind = "value"

\* The function-response parts of the delegate's conversation.
VisualResponseCount(conv) ==
  IF conv = << >> THEN 0
  ELSE LET Count[k \in 0..Len(conv)] ==
             IF k = 0 THEN 0
             ELSE Count[k - 1]
                  + Cardinality({j \in 1..Len(conv[k].parts) :
                                   conv[k].parts[j] = "functionResponse"})
       IN  Count[Len(conv)]

C28_MarkerOnlyAtMaxSteps ==
  [][(pc = "delegate" /\ pc' = "dispatch" /\ ~Last(thrown').threw) =>
       /\ lastVisual'.kind = "none" =>
             /\ visualModelCalls' <= VISUAL_MAX_STEPS
             /\ executed' = executed
             /\ Includes(Last(currentInputParts').text,
                         Join(HistoryEntries(executed), <<"\n">>))
       /\ Last(currentInputParts').text[1] = MaxStepsMarker =>
             /\ visualModelCalls' = VISUAL_MAX_STEPS
             /\ lastVisual'.kind = "calls"]_vars

\* C29: the function response of a dispatched delegate_to_visual_agent call
\* whose delegate returned carries the delegate's summary as a text string,
\* the shape of every other tool's response, and the delegate is started,
\* seeded with the instruction and with the image only when there is one,
\* whatever the outcome of the screenshot capture.
C29_DelegateResponseIsText ==
  /\ [](\A k \in 1..Len(invoked) :
          (invoked[k].call.name = "delegate_to_visual_agent"
             /\ invoked[k].out.kind = "value")
            => /\ currentInputParts[k].text = invoked[k].out.output
               /\ currentInputParts[k].shape = "string")
  /\ [][(pc = "dispatch" /\ turnDelegates' = turnDelegates + 1) =>
          /\ pc' = "delegate"
          /\ Len(contents') = 1
          /\ contents'[1].parts \in {<<"text">>, <<"text", "inlineData">>}]_vars

\* C30: every direct handler returns a textual result or an error string.
\* When the tool behind a direct handler answers with an error field and no
\* output, the function response of the call carries the error text.
C30_HandlerErrorSurfaced ==
  \A k \in 1..Len(invoked) :
     (invoked[k].call.name \in OutputHandlers \cup {"scroll_document"}
        /\ invoked[k].out.kind = "value"
        /\ invoked[k].out.output = Empty
        /\ invoked[k].out.error # Empty)
       => currentInputParts[k] =
            ResponsePart(invoked[k].call.name, "string", invoked[k].out.error)

\* The parts of kind kind in one entry of the delegate's conversation.
PartCount(entry, kind) ==
  Cardinality({k \in 1..Len(entry.parts) : entry.parts[k] = kind})

\* C31: the delegate's conversation is append-only and alternates roles. It
\* starts with one caller entry (the instruction, and the screenshot when
\* there is one); every executed step has appended the model's response and
\* then one caller entry with one function response per function call of that
\* response, followed by at most one image; no model entry holds a function
\* response.
C31_ConversationAlternates ==
  /\ [](pc = "delegate" =>
          /\ Len(contents) = 1 + 2 * i
          /\ contents[1].role = "user"
          /\ contents[1].parts \in {<<"text">>, <<"text", "inlineData">>}
          /\ \A k \in 2..Len(contents) :
                IF k % 2 = 0
                  THEN /\ contents[k].role = "model"
                       /\ PartCount(contents[k], "functionResponse") = 0
                       /\ PartCount(contents[k], "functionCall") >= 1
                  ELSE /\ contents[k].role = "user"
                       /\ PartCount(contents[k], "functionResponse")
                            = PartCount(contents[k - 1], "functionCall")
                       /\ PartCount(contents[k], "inlineData") <= 1
                       /\ PartCount(contents[k], "functionResponse")
                            + PartCount(contents[k], "inlineData")
                            = Len(contents[k].parts)
                       /\ contents[k].parts[1] = "functionResponse")
  /\ [][(pc = "delegate" /\ pc' = "delegate") =>
          /\ IsPrefix(contents, contents')
          /\ Len(contents') \in {Len(contents), Len(contents) + 2}]_vars

\* Two steps were executed: the screenshot after the first failed, the one
\* after the second succeeded.
C31_Witness ==
  /\ pc = "delegate"
  /\ i = 2
  /\ Len(contents) = 5
  /\ contents[3] = ContentEntry("user", <<"functionResponse">>)
  /\ contents[5] = ContentEntry("user", <<"functionResponse", "inlineData">>)

\* C32: dispatching complete_task does not cut the turn short. A run that
\* ended by completion without an observed cancellation processed every call
\* of its last turn, those after complete_task included; after a dispatched
\* complete_task the loop is left only from the end of the dispatch loop; and
\* the returned summary is that of the last complete_task call dispatched.
C32_CompleteDoesNotCutTurn ==
  /\ [](exitCause = "complete" =>
          /\ completions # << >>
          /\ result = OrElse(Last(completions), <<"Task completed">>)
          /\ cancelAt = "" =>
                /\ callIdx = Len(functionCalls) + 1
                /\ [k \in 1..Len(invoked) |-> invoked[k].call]
                     = NamedCalls(functionCalls, Len(functionCalls)))
  /\ [][(taskCompleted /\ pc = "dispatch" /\ callIdx <= Len(functionCalls)
           /\ ~aborted /\ ~aborted') =>
          /\ pc' # "done"
          /\ functionCalls[callIdx].name # "" =>
                turnDispatched' = turnDispatched + 1]_vars

\* complete_task came first in the turn, navigate after it was still run, and
\* the task then ended with the summary.
C32_Witness ==
  /\ pc = "done"
  /\ exitCause = "complete"
  /\ cancelAt = ""
  /\ functionCalls = <<CompleteDone, Navigate>>
  /\ Len(invoked) = 2
  /\ invoked[2].out.kind = "value"
  /\ result = <<"Done">>

\* C33: in every state of runTask the stored summary is non-empty exactly when
\* the completion flag is set, the flag is never reset, and runTask returns a
\* non-empty string on every path: whenever it has settled, a non-empty
\* string was returned.
C33_SummaryIffCompleted ==
  /\ []((taskSummary # Empty) <=> taskCompleted)
  /\ [][taskCompleted => taskCompleted']_vars
  /\ [](pc = "done" => result # Empty)

\* C34: the payload sent to the model is never empty: while a streaming call
\* is in flight, the message parts it was given hold at least one part.
C34_PayloadNeverEmpty == pc = "stream" => Len(messageParts) >= 1

\* The parts of a payload after its accessibility-tree part.
CarriedParts(parts) ==
  IF parts # << >> /\ IsTreePart(parts[1]) THEN Tail(parts) ELSE parts

\* C35: the task prompt part is in the first turn's payload only. From the
\* second turn on the carried-over parts are either the corrective re-prompt
\* alone or the function responses of the turn just before alone, one per
\* handled call of that turn and in that order, so the responses of an
\* earlier turn are not sent again.
C35_PromptFirstTurnOnly ==
  pc = "stream" =>
    LET carried == CarriedParts(messageParts)
    IN  /\ iterationCount = 0 => carried = << TextPart(<<"Task: ">> \o TaskPrompt) >>
        /\ iterationCount > 0 =>
              /\ ~Carries(messageParts, TextPart(<<"Task: ">> \o TaskPrompt))
              /\ \/ /\ carried = << TextPart(RepromptText) >>
                    /\ invoked = << >>
                 \/ /\ Len(carried) = Len(invoked)
                    /\ \A k \in 1..Len(carried) :
                          /\ carried[k].kind = "functionResponse"
                          /\ carried[k].name = invoked[k].call.name

\* The third turn's payload carries only the press_key response of the second
\* turn.
C35_Witness ==
  /\ pc = "stream"
  /\ iterationCount = 2
  /\ Len(invoked) = 1
  /\ invoked[1].call = PressKey
  /\ CarriedParts(messageParts) = << ResponsePart("press_key", "string", <<"ok">>) >>

\* C36: the delegate sub-loop has no cancellation checkpoint. While a delegate
\* run is in progress no cancellation is observed and runTask does not end;
\* with the signal aborted the only thing that happens is the next step of
\* the delegate, of which there are at most VISUAL_MAX_STEPS; and a
\* cancellation raised during a delegate run is observed by the orchestrator
\* only once the delegate has returned, before the next call or at the top of
\* the loop.
C36_DelegateNotCancellable ==
  /\ [](pc = "delegate" => (cancelAt = "" /\ exitCause = ""))
  /\ [](visualModelCalls <= VISUAL_MAX_STEPS /\ abortStep <= VISUAL_MAX_STEPS)
  /\ [][(pc = "delegate") =>
          /\ pc' \in {"delegate", "dispatch"}
          /\ exitCause' = ""
          /\ cancelAt' = ""]_vars
  /\ [][(pc = "delegate" /\ aborted) =>
          /\ aborted'
          /\ visualModelCalls' = visualModelCalls + 1]_vars
  /\ []((abortStep > 0 /\ cancelAt # "") =>
          /\ cancelAt \in {"dispatch", "top"}
          /\ pc \in {"loopTop", "done"}
          /\ contents = << >>
          /\ Len(invoked) >= 1
          /\ Last(invoked).call.name = "delegate_to_visual_agent"
          /\ Last(currentInputParts).name = "delegate_to_visual_agent")

\* The signal was aborted during the first step of a delegate run; the
\* delegate went on through all its steps and returned the max-steps
\* summary, and the cancellation was observed at the top of the loop.
C36_Witness ==
  /\ pc = "done"
  /\ exitCause = "cancel"
  /\ cancelAt = "top"
  /\ abortStep = 1
  /\ visualModelCalls = VISUAL_MAX_STEPS
  /\ Len(executed) = VISUAL_MAX_STEPS
  /\ Last(currentInputParts).text[1] = MaxStepsMarker

\* C37: the capturing flag of the border overlay is true only while a
\* screenshot is being taken: once captureScreenshot has returned, with an
\* image or with the empty string, the overlay state last sent to the driver
\* has capturing = false.
C37_CapturingClearedOnReturn == delegated => ~borderOverlay.capturing

\* The summary a delegate run returns for its last answer and the actions it
\* executed, whatever the invalidation attempt did.
SummaryOf(answer, acts) ==
  IF answer.kind \in {"final", "silent"}
    THEN CompletedOutput(OrElse(answer.text, <<"Done">>), HistoryEntries(acts))
    ELSE MaxStepsOutput(HistoryEntries(acts))

\* C38: every normal return of the delegate sub-loop (completion, early stop
\* without a response, step cap) comes with exactly one cache-invalidation
\* attempt of that run, no visual action is executed after it, and the
\* returned summary is the one built from the last answer and the executed
\* actions whether the attempt succeeded or failed; a run that ends with a
\* rejected generateContent call attempts none.
C38_OneInvalidationPerReturn ==
  /\ [](invalidations <= 1 /\ (pc = "delegate" => invalidations = 0))
  /\ [][(pc = "delegate" /\ pc' = "dispatch")
          => IF lastVisual'.kind = "throw"
               THEN invalidations' = 0
               ELSE /\ invalidations' = 1
                    /\ Last(currentInputParts') =
                         ResponsePart("delegate_to_visual_agent", "record",
                                      SummaryOf(lastVisual', executed'))
                    /\ ~Last(thrown').threw]_vars
  /\ [][(invalidations = 1 /\ invalidations' = 1) => executed' = executed]_vars

\* C38 witness: a delegate run executed a visual action, its invalidation
\* attempt failed, and the completion summary with the history line of the
\* action was returned all the same.
C38_Witness ==
  /\ pc = "dispatch"
  /\ invalidations = 1
  /\ invalidationFailed
  /\ lastVisual.kind = "final"
  /\ Len(executed) >= 1
  /\ Last(currentInputParts) =
       ResponsePart("delegate_to_visual_agent", "record",
                    SummaryOf(lastVisual, executed))

\* A name that is empty or holds nothing but whitespace.
Blank(name) == \A k \in 1..Len(name) : name[k] \in Whitespace

HasStringFrontmatter(content) ==
  /\ content.read = "ok"
  /\ content.match
  /\ content.yaml.kind = "object"
  /\ content.yaml.name.type = "string"
  /\ content.yaml.description.type = "string"

\* The skill files of the search paths that are readable directories, in the
\* order of the paths and of glob.
RECURSIVE Candidates(_)
Candidates(ps) ==
  IF ps = << >> THEN << >>
  ELSE (IF Stat(Resolve(ps[1])) = "dir" THEN Glob(Resolve(ps[1])).found ELSE << >>)
       \o Candidates(Tail(ps))

\* A sequence without the later occurrences of its elements.
RECURSIVE FirstOccurrences(_)
FirstOccurrences(q) ==
  IF q = << >> THEN << >>
  ELSE LET front == FirstOccurrences(SubSeq(q, 1, Len(q) - 1))
       IN  IF \E k \in 1..Len(front) : front[k] = q[Len(q)]
             THEN front ELSE Append(front, q[Len(q)])

\* C40: discoverSkills holds no location twice and only files with a string
\* name and description in their frontmatter, and it returns exactly those
\* files of the search paths that are readable directories, each at its
\* first discovery: paths that are missing, no directory or unreadable, and
\* invalid files, add nothing and take nothing away from the other paths.
C40_DiscoversEachOnce ==
  /\ \A j, k \in 1..Len(skills) :
       j # k => skills[j].location # skills[k].location
  /\ \A k \in 1..Len(skills) :
       /\ HasStringFrontmatter(files[skills[k].location])
       /\ skills[k].name = files[skills[k].location].yaml.name.value
  /\ discoverPc = "returned"
       => [k \in 1..Len(skills) |-> skills[k].location]
            = FirstOccurrences(
                SelectSeq(Candidates(paths),
                          LAMBDA f : HasStringFrontmatter(files[f])))

\* C40 witness: the skills directory is given twice, under two spellings,
\* with an unreadable directory in between; its first file has no
\* frontmatter, and the second is returned once.
C40_Witness ==
  /\ discoverPc = "returned"
  /\ paths = <<"skills", "locked", "./skills">>
  /\ files[AlphaSkill] = NoFrontmatter
  /\ Len(skills) = 1
  /\ skills[1].location = BetaSkill

====
